---- MODULE Spec2Model ----
(***************************************************************************)
(* Slot-booking consistency logic of the turf booking backend: the         *)
(* Booking / BookingSlot / Payment collections, the request handlers that  *)
(* write them inside database transactions, the recurring generator and    *)
(* the expiry sweep.                                                       *)
(*                                                                         *)
(* The database is modelled as the handlers use it: every handler opens a  *)
(* session and a transaction (snapshot of the committed collections at its *)
(* first read), its writes go to the transaction's private view, a write   *)
(* to a document that another transaction has changed since the snapshot   *)
(* is refused (write conflict), an insert or update that would leave two   *)
(* BOOKED BookingSlot rows with one (courtId, bookingDate, slotTime) is    *)
(* refused by the partial unique index (E11000), and commitTransaction     *)
(* publishes the private view atomically.                                  *)
(*                                                                         *)
(* Times "HH:mm" are pairs <<h, m>>; dates are timestamps counted in hours *)
(* (day * 24 + hour of day); money is counted in 1/400 of the currency     *)
(* unit so that rate / 4 and percent discounts stay exact.                 *)
(***************************************************************************)
EXTENDS Integers, Sequences, FiniteSets, TLC

VARIABLES bookings, slots, payments, rules, nextId, nextRuleId, clock, sess,
          generated

vars == <<bookings, slots, payments, rules, nextId, nextRuleId, clock, sess, generated>>

----------------------------------------------------------------------------
\* Bounds

\* Booking ids are 1..MaxBookings (ObjectIds are never reused).
MaxBookings == 2

\* RecurringBooking ids are 1..MaxRules.
MaxRules == 1

\* The time grid holds the MaxSlots + 1 quarter-hour marks from OpenHour:00.
MaxSlots == 2

\* Minutes of one slot.
SlotMinutes == 15

\* Hour of the first mark of the time grid (default openingTime '06:00').
OpenHour == 6

\* null / undefined: of a string, of an _id, of a Date
Null == "null"
NoId == 0
NoDate == -1

Unit == 4 * 100

----------------------------------------------------------------------------
\* Time and date helpers

\* moment(t, 'HH:mm'): minutes since midnight of a <<h, m>> wall-clock value.
ParseTime(t) == t[1] * 60 + t[2]

\* moment.format('HH:mm')
FormatTime(n) == <<n \div 60, n % 60>>

\* String order of two "HH:mm" labels.
TimeLeq(a, b) == a[1] < b[1] \/ (a[1] = b[1] /\ a[2] <= b[2])

normalizeToMidnight(date) == IF date = NoDate THEN NoDate ELSE (date \div 24) * 24

\* moment(date).day(): 0 = Sunday ... 6 = Saturday
DayOfWeek(date) == (date \div 24) % 7

RECURSIVE SlotsFrom_Inclusive(_, _)
\* A loop that runs while current is not after end.
SlotsFrom_Inclusive(current, end) ==
    IF current <= end
    THEN <<FormatTime(current)>> \o SlotsFrom_Inclusive(current + SlotMinutes, end)
    ELSE <<>>

RECURSIVE SlotsFrom(_, _)
SlotsFrom(current, end) ==
    IF current < end
    THEN <<FormatTime(current)>> \o SlotsFrom(current + SlotMinutes, end)
    ELSE <<>>

\* generateSlots: [threw, slots]
generateSlots(startTime, endTime) ==
    IF ~(ParseTime(endTime) > ParseTime(startTime))
    THEN [threw |-> TRUE, slots |-> <<>>]
    ELSE [threw |-> FALSE, slots |-> SlotsFrom(ParseTime(startTime), ParseTime(endTime))]

Range(s) == {s[i] : i \in 1..Len(s)}

\* calculatePrice, in 1/400 units: (hourlyRate / 4) * totalSlots
\* A price that takes the weekend rate on Saturdays only.
calculatePrice_SaturdayOnly(court, totalSlots, bookingDate) ==
    LET dayOfWeek == DayOfWeek(bookingDate)
        hourlyRate == IF dayOfWeek = 6
                      THEN court.weekendPrice ELSE court.weekdayPrice
    IN (hourlyRate * (Unit \div 4)) * totalSlots

calculatePrice(court, totalSlots, bookingDate) ==
    LET dayOfWeek == DayOfWeek(bookingDate)
        hourlyRate == IF dayOfWeek = 0 \/ dayOfWeek = 6
                      THEN court.weekendPrice ELSE court.weekdayPrice
    IN (hourlyRate * (Unit \div 4)) * totalSlots

\* Math.ceil on 1/400 units
Ceil(x) == IF x % Unit = 0 THEN x ELSE ((x \div Unit) + 1) * Unit

Max(a, b) == IF a >= b THEN a ELSE b

----------------------------------------------------------------------------
\* Courts (Court collection; read-only for the booking handlers)

ActiveCourt == "c1"
InactiveCourt == "c2"
MissingCourt == "c9"

\* Court.findById
CourtDoc(courtId) ==
    IF courtId = ActiveCourt
    THEN [status |-> "ACTIVE", weekdayPrice |-> 400, weekendPrice |-> 600]
    ELSE IF courtId = InactiveCourt
    THEN [status |-> "INACTIVE", weekdayPrice |-> 400, weekendPrice |-> 600]
    ELSE [status |-> "MISSING", weekdayPrice |-> 0, weekendPrice |-> 0]

----------------------------------------------------------------------------
\* The database: committed collections, sessions and transactions

Committed ==
    [bookings |-> bookings, slots |-> slots, payments |-> payments, rules |-> rules]

EmptyDb == [bookings |-> {}, slots |-> {}, payments |-> {}, rules |-> {}]

\* A field of a request body or options object, or its destructuring default.
Get(data, field, default) == IF field \in DOMAIN data THEN data[field] ELSE default

\* Transactions of other sessions that are in progress.
Others(c) == {d \in DOMAIN sess : d # c /\ sess[d].tx = "active"}

\* Documents of collection f that transaction d has updated or deleted / inserted
\* (an update replaces the old version of a document by the new one).
Touched(d, f) == sess[d].snap[f] \ sess[d].work[f]
Inserted(d, f) == sess[d].work[f] \ sess[d].snap[f]

\* A database that refuses no write.
WriteConflict_Never(c, f, docs) == FALSE

\* A write of transaction c to the documents docs of collection f is refused when
\* one of them was changed after c's snapshot, by a committed transaction or by
\* one still in progress.
WriteConflict(c, f, docs) ==
    \E x \in docs :
        /\ x \in sess[c].snap[f]
        /\ \/ x \notin Committed[f]
           \/ \E d \in Others(c) : x \in Touched(d, f)

SlotKey(r) == <<r.courtId, r.bookingDate, r.slotTime>>

\* bookingSlotSchema.index({courtId, bookingDate, slotTime},
\*     {unique: true, partialFilterExpression: {status: 'BOOKED'}}):
\* writing rows (inserted, or updated to these values) into the view work of
\* transaction c is refused when a BOOKED row among them meets another BOOKED row
\* with its key, in the view, committed since the snapshot, or written by a
\* transaction in progress.
UniqueIndexViolated(c, work, rows) ==
    \E r \in rows :
        /\ r.status = "BOOKED"
        /\ \E x \in (work.slots \cup rows \cup (slots \ sess[c].snap.slots)
                     \cup UNION {Inserted(d, "slots") : d \in Others(c)}) \ {r} :
              x.status = "BOOKED" /\ SlotKey(x) = SlotKey(r)

----------------------------------------------------------------------------
\* Slot availability (slotValidation.service)

RECURSIVE SortTimes(_)
SortTimes(S) ==
    IF S = {} THEN <<>>
    ELSE LET m == CHOOSE x \in S : \A y \in S : TimeLeq(x, y)
         IN <<m>> \o SortTimes(S \ {m})

\* checkSlotAvailability without the status filter of its query: a row of any
\* status blocks the slot.
checkSlotAvailability_AnyStatus(db, courtId, bookingDate, startTime, endTime, excludeBookingId) ==
    LET gen == generateSlots(startTime, endTime)
        normalizedDate == normalizeToMidnight(bookingDate)
        conflicts == {r \in db.slots :
                        /\ r.courtId = courtId
                        /\ r.bookingDate = normalizedDate
                        /\ r.slotTime \in Range(gen.slots)
                        /\ (excludeBookingId # NoId => r.bookingId # excludeBookingId)}
    IN IF gen.threw
       THEN [threw |-> TRUE, available |-> FALSE, conflicts |-> <<>>]
       ELSE IF conflicts # {}
       THEN [threw |-> FALSE, available |-> FALSE,
             conflicts |-> SortTimes({r.slotTime : r \in conflicts})]
       ELSE [threw |-> FALSE, available |-> TRUE, conflicts |-> <<>>]

\* checkSlotAvailability whose query never excludes a booking.
checkSlotAvailability_NoExclusion(db, courtId, bookingDate, startTime, endTime, excludeBookingId) ==
    LET gen == generateSlots(startTime, endTime)
        normalizedDate == normalizeToMidnight(bookingDate)
        conflicts == {r \in db.slots :
                        /\ r.courtId = courtId
                        /\ r.bookingDate = normalizedDate
                        /\ r.slotTime \in Range(gen.slots)
                        /\ r.status = "BOOKED"}
    IN IF gen.threw
       THEN [threw |-> TRUE, available |-> FALSE, conflicts |-> <<>>]
       ELSE IF conflicts # {}
       THEN [threw |-> FALSE, available |-> FALSE,
             conflicts |-> SortTimes({r.slotTime : r \in conflicts})]
       ELSE [threw |-> FALSE, available |-> TRUE, conflicts |-> <<>>]

\* checkSlotAvailability(courtId, bookingDate, startTime, endTime, session,
\* excludeBookingId) on the session's view db: [threw, available, conflicts]
checkSlotAvailability(db, courtId, bookingDate, startTime, endTime, excludeBookingId) ==
    LET gen == generateSlots(startTime, endTime)
        normalizedDate == normalizeToMidnight(bookingDate)
        conflicts == {r \in db.slots :
                        /\ r.courtId = courtId
                        /\ r.bookingDate = normalizedDate
                        /\ r.slotTime \in Range(gen.slots)
                        /\ r.status = "BOOKED"
                        /\ (excludeBookingId # NoId => r.bookingId # excludeBookingId)}
    IN IF gen.threw
       THEN [threw |-> TRUE, available |-> FALSE, conflicts |-> <<>>]
       ELSE IF conflicts # {}
       THEN [threw |-> FALSE, available |-> FALSE,
             conflicts |-> SortTimes({r.slotTime : r \in conflicts})]
       ELSE [threw |-> FALSE, available |-> TRUE, conflicts |-> <<>>]

----------------------------------------------------------------------------
\* Booking core (bookingCore.service)

\* The final amount: discount applied, clamped at 0, rounded up.
CoreFinalAmount(baseAmount, discountType, discountValue) ==
    LET discounted ==
            IF discountType = "PERCENT"
            THEN baseAmount - (baseAmount * discountValue) \div 100
            ELSE IF discountType = "FLAT"
            THEN baseAmount - discountValue * Unit
            ELSE baseAmount
    IN Max(0, Ceil(discounted))

\* Payment status written by createSingleBooking.
CorePaymentStatus(paymentStatus, advancePaid, finalAmount) ==
    IF paymentStatus # Null THEN paymentStatus
    ELSE IF advancePaid <= 0 THEN "PENDING"
    ELSE IF advancePaid >= finalAmount THEN "PAID"
    ELSE "PARTIAL"

CoreResult(err, conflicts, work, bookingId, dbError) ==
    [err |-> err, conflicts |-> conflicts, work |-> work,
     bookingId |-> bookingId, dbError |-> dbError]

\* createSingleBooking(bookingData, session) run by session c on its view work,
\* the new Booking getting _id id.  dbError: the error came from the database,
\* which has aborted the transaction.
createSingleBooking(c, work, data, id) ==
    LET courtId == data.courtId
        startTime == data.startTime
        endTime == data.endTime
        discountType == Get(data, "discountType", "NONE")
        discountValue == Get(data, "discountValue", 0)
        advancePaid == Get(data, "advancePaid", 0)
        source == Get(data, "source", "MANUAL")
        recurringId == Get(data, "recurringId", NoId)
        skipAvailabilityCheck == Get(data, "skipAvailabilityCheck", FALSE)
        paymentStatus == Get(data, "paymentStatus", Null)
        normalizedDate == normalizeToMidnight(data.bookingDate)
        court == CourtDoc(courtId)
        gen == generateSlots(startTime, endTime)
        slotList == gen.slots
        availability ==
            checkSlotAvailability(work, courtId, normalizedDate, startTime, endTime, NoId)
        zombies == IF skipAvailabilityCheck THEN {}
                   ELSE {r \in work.slots :
                           /\ r.courtId = courtId
                           /\ r.bookingDate = normalizedDate
                           /\ r.slotTime \in Range(slotList)
                           /\ r.status # "BOOKED"}
        work1 == [work EXCEPT !.slots = @ \ zombies]
        baseAmount == calculatePrice(court, Len(slotList), data.bookingDate)
        finalAmount == CoreFinalAmount(baseAmount, discountType, discountValue)
        booking == [id |-> id, courtId |-> courtId, bookingDate |-> normalizedDate,
                    startTime |-> startTime, endTime |-> endTime,
                    totalSlots |-> Len(slotList), baseAmount |-> baseAmount,
                    discountType |-> discountType, discountValue |-> discountValue,
                    finalAmount |-> finalAmount, status |-> "BOOKED",
                    source |-> source, recurringId |-> recurringId]
        bookingSlots == {[bookingId |-> id, courtId |-> courtId,
                          bookingDate |-> normalizedDate, slotTime |-> slotList[i],
                          status |-> "BOOKED"] : i \in 1..Len(slotList)}
        payment == [bookingId |-> id, totalAmount |-> finalAmount,
                    advancePaid |-> advancePaid,
                    balanceAmount |-> finalAmount - advancePaid,
                    status |-> CorePaymentStatus(paymentStatus, advancePaid, finalAmount)]
        work2 == [work1 EXCEPT !.bookings = @ \cup {booking}]
        work3 == [work2 EXCEPT !.slots = @ \cup bookingSlots,
                               !.payments = @ \cup {payment}]
    IN IF court.status = "MISSING" THEN CoreResult("COURT_NOT_FOUND", <<>>, work, NoId, FALSE)
       ELSE IF court.status # "ACTIVE" THEN CoreResult("COURT_INACTIVE", <<>>, work, NoId, FALSE)
       ELSE IF gen.threw \/ Len(slotList) = 0
       THEN CoreResult("INVALID_RANGE", <<>>, work, NoId, FALSE)
       ELSE IF ~skipAvailabilityCheck /\ ~availability.available
       THEN CoreResult("SLOT_CONFLICT", availability.conflicts, work, NoId, FALSE)
       ELSE IF WriteConflict(c, "slots", zombies)
       THEN CoreResult("WRITE_CONFLICT", <<>>, work, NoId, TRUE)
       ELSE IF paymentStatus = "PAID"
       THEN CoreResult("TYPE_ERROR", <<>>, work1, NoId, FALSE)
       ELSE IF advancePaid > finalAmount
       THEN CoreResult("ADVANCE_EXCEEDS", <<>>, work1, NoId, FALSE)
       ELSE IF UniqueIndexViolated(c, work2, bookingSlots)
       THEN CoreResult("E11000", <<>>, work2, id, TRUE)
       ELSE CoreResult("OK", <<>>, work3, id, FALSE)

----------------------------------------------------------------------------
\* Sessions (mongoose.startSession / startTransaction / commitTransaction /
\* abortTransaction / endSession) and responses

NoArgs == [none |-> TRUE]
NoOut == [err |-> "NONE", conflicts |-> <<>>, bookingId |-> NoId]

\* tx: "none", "active", "failed" (aborted by the database after a refused write),
\* "committed", "aborted".  commits / aborts / ends count the calls made on the
\* session by the code.
IdleSess ==
    [pc |-> "idle", op |-> "none", args |-> NoArgs, tx |-> "none",
     commits |-> 0, aborts |-> 0, ends |-> 0, code |-> 0,
     snap |-> EmptyDb, work |-> EmptyDb, out |-> NoOut]

\* startSession(); startTransaction(): the snapshot is the committed state.
StartTx(op, args) ==
    [IdleSess EXCEPT !.pc = "begun", !.op = op, !.args = args, !.tx = "active",
                     !.snap = Committed, !.work = Committed]

\* A commit that loses the Payment documents of the transaction.
Publish_NoPayments(c, f) ==
    IF f = "payments" THEN Committed[f]
    ELSE (Committed[f] \ Touched(c, f)) \cup Inserted(c, f)

\* The committed collection f after transaction c commits.
Publish(c, f) == (Committed[f] \ Touched(c, f)) \cup Inserted(c, f)

\* Calls on a session
Commit(s) == [s EXCEPT !.tx = "committed", !.commits = @ + 1]
Abort(s) == [s EXCEPT !.tx = "aborted", !.aborts = @ + 1]
End(s) == [s EXCEPT !.ends = @ + 1,
                    !.tx = IF @ \in {"active", "failed"} THEN "aborted" ELSE @]

\* The handler has answered with status code: the request and the session context
\* are dropped, the outcome and the calls made on the session stay visible until
\* the client's next request.
Done(s, code) ==
    [s EXCEPT !.pc = "done", !.code = code, !.args = NoArgs,
              !.snap = EmptyDb, !.work = EmptyDb]

Ready(c) == sess[c].pc \in {"idle", "done"}

\* A service called on its own has returned out: the call is recorded in the
\* caller's context.
Called(op, args, out) ==
    [IdleSess EXCEPT !.pc = "done", !.op = op, !.args = args, !.out = out]

\* The result of an awaited call, kept in the session context.
Out(r) == [err |-> r.err, conflicts |-> r.conflicts, bookingId |-> r.bookingId]

\* error.message of the errors the core and the database throw
ErrorMessage(err) ==
    CASE err = "COURT_NOT_FOUND" -> "Court not found"
      [] err = "COURT_INACTIVE" -> "Court is not active"
      [] err = "INVALID_RANGE" -> "End time must be after start time"
      [] err = "SLOT_CONFLICT" -> "This slot is already booked. Please select another time."
      [] err = "TYPE_ERROR" -> "Assignment to constant variable."
      [] err = "ADVANCE_EXCEEDS" -> "Advance cannot be more than final amount"
      [] err = "E11000" -> "E11000 duplicate key error"
      [] err = "WRITE_CONFLICT" -> "WriteConflict"
      [] OTHER -> err

\* error.message.includes('Slots already booked')
IncludesSlotsAlreadyBooked(message) == message \in {"Slots already booked"}

\* error.code of a thrown error (0: none)
ErrorCode(err) == IF err = "E11000" THEN 11000 ELSE IF err = "WRITE_CONFLICT" THEN 112 ELSE 0

----------------------------------------------------------------------------
\* Inputs

Friday == 5 * 24
Saturday == 6 * 24

TimePoints == {FormatTime(OpenHour * 60 + SlotMinutes * k) : k \in 0..MaxSlots}
T0 == FormatTime(OpenHour * 60)
T1 == FormatTime(OpenHour * 60 + SlotMinutes)
T2 == FormatTime(OpenHour * 60 + SlotMinutes * MaxSlots)

Body(courtId, bookingDate, startTime, endTime, discountType, discountValue, advancePaid, paymentStatus) ==
    [courtId |-> courtId, bookingDate |-> bookingDate, startTime |-> startTime,
     endTime |-> endTime, discountType |-> discountType,
     discountValue |-> discountValue, advancePaid |-> advancePaid,
     paymentStatus |-> paymentStatus]

\* req.body of POST /api/admin/bookings
CreateBodies ==
    {Body(ActiveCourt, Friday, s, e, "NONE", 0, 0, Null) :
        s \in TimePoints \ {T2}, e \in TimePoints \ {T0}}
    \cup {Body(ActiveCourt, Friday + 10, T0, T1, "NONE", 0, 0, Null)}
    \cup {Body(k, Friday, T0, T1, "NONE", 0, 0, Null) : k \in {InactiveCourt, MissingCourt}}
    \cup {Body(ActiveCourt, Friday, T0, T1, "PERCENT", 50, 60 * Unit, Null),
          Body(ActiveCourt, Friday, T0, T1, "FLAT", 30, 0, "PAID")}

----------------------------------------------------------------------------
\* POST /api/admin/bookings (booking.controller createBooking)

createBookingStart(c, body) ==
    /\ Ready(c)
    /\ nextId <= MaxBookings
    /\ sess' = [sess EXCEPT ![c] = StartTx("createBooking", body)]
    /\ UNCHANGED <<bookings, slots, payments, rules, nextId, nextRuleId, clock, generated>>

\* await createSingleBooking({...req.body, createdBy}, session)
createBookingCall(c) ==
    /\ sess[c].pc = "begun"
    /\ sess[c].op = "createBooking"
    /\ LET r == createSingleBooking(c, sess[c].work, sess[c].args, nextId)
       IN /\ r.bookingId # NoId => nextId <= MaxBookings
          /\ sess' = [sess EXCEPT ![c].pc = IF r.err = "OK" THEN "returned" ELSE "threw",
                                  ![c].work = r.work,
                                  ![c].out = Out(r),
                                  ![c].tx = IF r.dbError THEN "failed" ELSE @]
          /\ nextId' = IF r.bookingId # NoId THEN nextId + 1 ELSE nextId
          /\ UNCHANGED <<nextRuleId, clock, generated>>
    /\ UNCHANGED <<bookings, slots, payments, rules>>

\* The status the catch block of createBooking answers with.
createBookingErrorStatus(err) ==
    IF IncludesSlotsAlreadyBooked(ErrorMessage(err)) THEN 409
    ELSE IF ErrorCode(err) = 11000 THEN 409
    ELSE 400

\* commitTransaction / endSession / 201, or the catch block
createBookingFinish(c) ==
    /\ sess[c].op = "createBooking"
    /\ \/ /\ sess[c].pc = "returned"
          /\ bookings' = Publish(c, "bookings")
          /\ slots' = Publish(c, "slots")
          /\ payments' = Publish(c, "payments")
          /\ sess' = [sess EXCEPT ![c] = Done(End(Commit(@)), 201)]
       \/ /\ sess[c].pc = "threw"
          /\ sess' = [sess EXCEPT ![c] =
                        Done(End(Abort(@)), createBookingErrorStatus(@.out.err))]
          /\ UNCHANGED <<bookings, slots, payments>>
    /\ UNCHANGED <<rules, nextId, nextRuleId, clock, generated>>

----------------------------------------------------------------------------
\* Handlers that run in one transaction without calling the core

\* Booking.findById(id).session(session): a set with the document, or empty
FindBooking(db, id) == {b \in db.bookings : b.id = id}

SlotsOf(db, id) == {r \in db.slots : r.bookingId = id}

\* BookingSlot.updateMany({bookingId}, {status}): the rows as rewritten
WithStatus(rows, status) == {[r EXCEPT !.status = status] : r \in rows}

\* A handler's outcome on its view: err, the view after its writes, and whether
\* the database refused a write.
Outcome(err, conflicts, work, dbError) ==
    [err |-> err, conflicts |-> conflicts, work |-> work,
     bookingId |-> NoId, dbError |-> dbError, ret |-> 0]

\* return res.status(code).json(...) from inside the try block: the handler
\* answers and leaves without committing or aborting.
EarlyReturn(err, conflicts, work, code) ==
    [err |-> err, conflicts |-> conflicts, work |-> work,
     bookingId |-> NoId, dbError |-> FALSE, ret |-> code]

Created(work, id) ==
    [err |-> "OK", conflicts |-> <<>>, work |-> work,
     bookingId |-> id, dbError |-> FALSE, ret |-> 0]

\* The committed collection f after transaction c commits the view work.
PublishView(c, work, f) ==
    (Committed[f] \ (sess[c].snap[f] \ work[f])) \cup (work[f] \ sess[c].snap[f])

\* The end of a handler that commits on success (okCode) and aborts in its catch
\* block (errCode); both paths end the session.
Settle(c, r, okCode, errCode) ==
    IF r.ret # 0
    THEN /\ sess' = [sess EXCEPT ![c] = Done([@ EXCEPT !.out = Out(r)], r.ret)]
         /\ UNCHANGED <<bookings, slots, payments, rules>>
    ELSE IF r.err = "OK"
    THEN /\ bookings' = PublishView(c, r.work, "bookings")
         /\ slots' = PublishView(c, r.work, "slots")
         /\ payments' = PublishView(c, r.work, "payments")
         /\ rules' = PublishView(c, r.work, "rules")
         /\ sess' = [sess EXCEPT ![c] = Done(End(Commit([@ EXCEPT !.out = Out(r)])), okCode)]
    ELSE /\ sess' = [sess EXCEPT ![c] = Done(End(Abort([@ EXCEPT !.out = Out(r)])), errCode)]
         /\ UNCHANGED <<bookings, slots, payments, rules>>

\* The body of updateBookingStatus on the view work
updateBookingStatusBody(c, work, id, status) ==
    LET found == FindBooking(work, id)
        booking == CHOOSE b \in found : TRUE
        rows == SlotsOf(work, id)
        changed == {r \in rows : r.status # status}
        availability ==
            checkSlotAvailability(work, booking.courtId,
                                  normalizeToMidnight(booking.bookingDate),
                                  booking.startTime, booking.endTime, id)
        rewrite == status \in {"CANCELLED", "COMPLETED"}
                   \/ (status = "BOOKED" /\ booking.status # "BOOKED")
        rest == [work EXCEPT !.slots = @ \ changed]
        work1 == IF rewrite
                 THEN [rest EXCEPT !.slots = @ \cup WithStatus(changed, status)]
                 ELSE work
        work2 == [work1 EXCEPT !.bookings =
                     (@ \ {booking}) \cup {[booking EXCEPT !.status = status]}]
    IN IF found = {} THEN Outcome("BOOKING_NOT_FOUND", <<>>, work, FALSE)
       ELSE IF status = "BOOKED" /\ booking.status # "BOOKED" /\ ~availability.available
       THEN Outcome("SLOT_CONFLICT", availability.conflicts, work, FALSE)
       ELSE IF rewrite /\ WriteConflict(c, "slots", changed)
       THEN Outcome("WRITE_CONFLICT", <<>>, work, TRUE)
       ELSE IF rewrite /\ UniqueIndexViolated(c, rest, WithStatus(changed, status))
       THEN Outcome("E11000", <<>>, work, TRUE)
       ELSE IF booking.status # status /\ WriteConflict(c, "bookings", {booking})
       THEN Outcome("WRITE_CONFLICT", <<>>, work1, TRUE)
       ELSE Outcome("OK", <<>>, work2, FALSE)

\* PATCH /api/admin/bookings/:id/status
updateBookingStatusStart(c, id, status) ==
    /\ Ready(c)
    /\ sess' = [sess EXCEPT ![c] = StartTx("updateBookingStatus", [id |-> id, status |-> status])]
    /\ UNCHANGED <<bookings, slots, payments, rules, nextId, nextRuleId, clock, generated>>

updateBookingStatus(c) ==
    /\ sess[c].pc = "begun"
    /\ sess[c].op = "updateBookingStatus"
    /\ Settle(c, updateBookingStatusBody(c, sess[c].work, sess[c].args.id, sess[c].args.status),
              200, 500)
    /\ UNCHANGED <<nextId, nextRuleId, clock, generated>>

\* The body of deleteBooking (admin), deleteBooking (staff) and
\* deleteStaffCalendarBooking: slots, payment and booking are deleted.
deleteBookingBody(c, work, id) ==
    LET found == FindBooking(work, id)
        rows == SlotsOf(work, id)
        pays == {p \in work.payments : p.bookingId = id}
        work1 == [work EXCEPT !.slots = @ \ rows, !.payments = @ \ pays,
                              !.bookings = @ \ found]
    IN IF found = {} THEN Outcome("BOOKING_NOT_FOUND", <<>>, work, FALSE)
       ELSE IF \/ WriteConflict(c, "slots", rows)
               \/ WriteConflict(c, "payments", pays)
               \/ WriteConflict(c, "bookings", found)
       THEN Outcome("WRITE_CONFLICT", <<>>, work, TRUE)
       ELSE Outcome("OK", <<>>, work1, FALSE)

\* DELETE /api/admin/bookings/:id
deleteBookingStart(c, id) ==
    /\ Ready(c)
    /\ sess' = [sess EXCEPT ![c] = StartTx("deleteBooking", [id |-> id])]
    /\ UNCHANGED <<bookings, slots, payments, rules, nextId, nextRuleId, clock, generated>>

deleteBooking(c) ==
    /\ sess[c].pc = "begun"
    /\ sess[c].op = "deleteBooking"
    /\ Settle(c, deleteBookingBody(c, sess[c].work, sess[c].args.id), 200, 500)
    /\ UNCHANGED <<nextId, nextRuleId, clock, generated>>

\* DELETE /api/staff/bookings/:id (staff booking controller deleteBooking)
staffDeleteBookingStart(c, id) ==
    /\ Ready(c)
    /\ sess' = [sess EXCEPT ![c] = StartTx("staffDeleteBooking", [id |-> id])]
    /\ UNCHANGED <<bookings, slots, payments, rules, nextId, nextRuleId, clock, generated>>

staffDeleteBooking(c) ==
    /\ sess[c].pc = "begun"
    /\ sess[c].op = "staffDeleteBooking"
    /\ Settle(c, deleteBookingBody(c, sess[c].work, sess[c].args.id), 200, 400)
    /\ UNCHANGED <<nextId, nextRuleId, clock, generated>>

\* DELETE /api/staff/calendar/bookings/:id
deleteStaffCalendarBookingStart(c, id) ==
    /\ Ready(c)
    /\ sess' = [sess EXCEPT ![c] = StartTx("deleteStaffCalendarBooking", [id |-> id])]
    /\ UNCHANGED <<bookings, slots, payments, rules, nextId, nextRuleId, clock, generated>>

deleteStaffCalendarBooking(c) ==
    /\ sess[c].pc = "begun"
    /\ sess[c].op = "deleteStaffCalendarBooking"
    /\ Settle(c, deleteBookingBody(c, sess[c].work, sess[c].args.id), 200, 400)
    /\ UNCHANGED <<nextId, nextRuleId, clock, generated>>

\* A cancel that sets the booking to CANCELLED and leaves its slot rows as they
\* are.
cancelBody_RowsStayBooked(c, work, id, keepRows) ==
    LET found == FindBooking(work, id)
        booking == CHOOSE b \in found : TRUE
        work1 == [work EXCEPT !.bookings =
                     (@ \ {booking}) \cup {[booking EXCEPT !.status = "CANCELLED"]}]
    IN IF found = {} THEN Outcome("BOOKING_NOT_FOUND", <<>>, work, FALSE)
       ELSE IF booking.status = "CANCELLED"
       THEN Outcome("ALREADY_CANCELLED", <<>>, work, FALSE)
       ELSE IF WriteConflict(c, "bookings", {booking})
       THEN Outcome("WRITE_CONFLICT", <<>>, work, TRUE)
       ELSE Outcome("OK", <<>>, work1, FALSE)

\* The body of the staff cancel handlers: cancelBooking deletes the booking's
\* slot rows (keepRows = FALSE), cancelStaffCalendarBooking marks them CANCELLED
\* and refuses a booking whose bookingSource is RECURRING.
cancelBody(c, work, id, keepRows) ==
    LET found == FindBooking(work, id)
        booking == CHOOSE b \in found : TRUE
        rows == SlotsOf(work, id)
        changed == IF keepRows THEN {r \in rows : r.status # "CANCELLED"} ELSE rows
        work1 == [work EXCEPT !.bookings =
                     (@ \ {booking}) \cup {[booking EXCEPT !.status = "CANCELLED"]}]
        work2 == [work1 EXCEPT !.slots =
                     (@ \ changed) \cup (IF keepRows THEN WithStatus(changed, "CANCELLED") ELSE {})]
    IN IF found = {} THEN Outcome("BOOKING_NOT_FOUND", <<>>, work, FALSE)
       ELSE IF booking.status = "CANCELLED"
       THEN Outcome("ALREADY_CANCELLED", <<>>, work, FALSE)
       ELSE IF keepRows /\ Get(booking, "bookingSource", Null) = "RECURRING"
       THEN Outcome("RECURRING_BOOKING", <<>>, work, FALSE)
       ELSE IF WriteConflict(c, "bookings", {booking})
       THEN Outcome("WRITE_CONFLICT", <<>>, work, TRUE)
       ELSE IF WriteConflict(c, "slots", changed)
       THEN Outcome("WRITE_CONFLICT", <<>>, work1, TRUE)
       ELSE Outcome("OK", <<>>, work2, FALSE)

\* PATCH /api/staff/bookings/:id/cancel
cancelBookingStart(c, id) ==
    /\ Ready(c)
    /\ sess' = [sess EXCEPT ![c] = StartTx("cancelBooking", [id |-> id])]
    /\ UNCHANGED <<bookings, slots, payments, rules, nextId, nextRuleId, clock, generated>>

cancelBooking(c) ==
    /\ sess[c].pc = "begun"
    /\ sess[c].op = "cancelBooking"
    /\ Settle(c, cancelBody(c, sess[c].work, sess[c].args.id, FALSE), 200, 400)
    /\ UNCHANGED <<nextId, nextRuleId, clock, generated>>

\* PATCH /api/staff/calendar/bookings/:id/cancel
cancelStaffCalendarBookingStart(c, id) ==
    /\ Ready(c)
    /\ sess' = [sess EXCEPT ![c] = StartTx("cancelStaffCalendarBooking", [id |-> id])]
    /\ UNCHANGED <<bookings, slots, payments, rules, nextId, nextRuleId, clock, generated>>

cancelStaffCalendarBooking(c) ==
    /\ sess[c].pc = "begun"
    /\ sess[c].op = "cancelStaffCalendarBooking"
    /\ Settle(c, cancelBody(c, sess[c].work, sess[c].args.id, TRUE), 200, 400)
    /\ UNCHANGED <<nextId, nextRuleId, clock, generated>>

BookingIds == 1..MaxBookings
Statuses == {"BOOKED", "CANCELLED", "COMPLETED"}

\* Settings.getSettings(): the defaults created on first read
Settings == [openingTime |-> <<6, 0>>, closingTime |-> <<23, 0>>]

\* The body of createStaffBooking on the view work; the new Booking gets _id id.
createStaffBookingBody(c, work, body, id) ==
    LET courtId == body.courtId
        startTime == body.startTime
        endTime == body.endTime
        advancePaid == Get(body, "advancePaid", 0)
        court == CourtDoc(courtId)
        gen == generateSlots(startTime, endTime)
        slotList == gen.slots
        bDate == normalizeToMidnight(body.bookingDate)
        existingSlots == {r \in work.slots :
                            /\ r.courtId = courtId
                            /\ r.bookingDate = bDate
                            /\ r.slotTime \in Range(slotList)}
        activeConflicts == {r \in existingSlots :
                              \E b \in FindBooking(work, r.bookingId) : b.status = "BOOKED"}
        work1 == [work EXCEPT !.slots = @ \ existingSlots]
        baseAmount == calculatePrice(court, Len(slotList), bDate)
        totalAmount == Ceil(baseAmount)
        calculatedRemaining == Max(0, totalAmount - advancePaid)
        booking == [id |-> id, courtId |-> courtId, bookingDate |-> bDate,
                    startTime |-> startTime, endTime |-> endTime,
                    totalSlots |-> Len(slotList), baseAmount |-> totalAmount,
                    discountType |-> "NONE", discountValue |-> 0,
                    finalAmount |-> totalAmount, status |-> "BOOKED",
                    source |-> "MANUAL", recurringId |-> NoId]
        rows == {[bookingId |-> id, courtId |-> courtId, bookingDate |-> bDate,
                  slotTime |-> slotList[i], status |-> "BOOKED"] : i \in 1..Len(slotList)}
        payment == [bookingId |-> id, totalAmount |-> totalAmount,
                    advancePaid |-> advancePaid, balanceAmount |-> calculatedRemaining,
                    status |-> IF calculatedRemaining = 0 THEN "PAID"
                               ELSE IF advancePaid > 0 THEN "PARTIAL" ELSE "PENDING"]
        work2 == [work1 EXCEPT !.bookings = @ \cup {booking}]
        work3 == [work2 EXCEPT !.slots = @ \cup rows, !.payments = @ \cup {payment}]
    IN IF ~body.complete
       THEN EarlyReturn("FIELDS_REQUIRED", <<>>, work, 400)
       ELSE IF \/ ParseTime(startTime) < ParseTime(Settings.openingTime)
               \/ ParseTime(endTime) > ParseTime(Settings.closingTime)
       THEN EarlyReturn("OUTSIDE_HOURS", <<>>, work, 400)
       ELSE IF court.status # "ACTIVE"
       THEN Outcome("COURT_NOT_FOUND_OR_INACTIVE", <<>>, work, FALSE)
       ELSE IF gen.threw THEN Outcome("INVALID_RANGE", <<>>, work, FALSE)
       ELSE IF activeConflicts # {}
       THEN EarlyReturn("SLOTS_ALREADY_BOOKED",
                        SortTimes({r.slotTime : r \in activeConflicts}), work, 409)
       ELSE IF WriteConflict(c, "slots", existingSlots)
       THEN Outcome("WRITE_CONFLICT", <<>>, work, TRUE)
       ELSE IF UniqueIndexViolated(c, work2, rows)
       THEN Outcome("E11000", <<>>, work2, TRUE)
       ELSE Created(work3, id)

\* POST /api/staff/bookings
createStaffBookingStart(c, body) ==
    /\ Ready(c)
    /\ nextId <= MaxBookings
    /\ sess' = [sess EXCEPT ![c] = StartTx("createStaffBooking", body)]
    /\ UNCHANGED <<bookings, slots, payments, rules, nextId, nextRuleId, clock, generated>>

createStaffBooking(c) ==
    /\ sess[c].pc = "begun"
    /\ sess[c].op = "createStaffBooking"
    /\ nextId <= MaxBookings
    /\ LET r == createStaffBookingBody(c, sess[c].work, sess[c].args, nextId)
       IN /\ Settle(c, r, 201, 500)
          /\ nextId' = IF r.err \in {"OK", "E11000"} THEN nextId + 1 ELSE nextId
          /\ UNCHANGED <<nextRuleId, clock, generated>>

\* Price after discount as the admin edit computes it: clamped at 0, not rounded.
EditFinalAmount(baseAmount, discountType, discountValue) ==
    LET priceAfterDiscount ==
            IF discountType = "PERCENT"
            THEN baseAmount - (baseAmount * discountValue) \div 100
            ELSE IF discountType = "FLAT"
            THEN baseAmount - discountValue * Unit
            ELSE baseAmount
    IN Max(0, priceAfterDiscount)

\* The Payment as updateBooking (admin) rewrites it.
EditPayment(payment, finalAmount, advancePaid, paymentStatus) ==
    LET advance == IF paymentStatus = "PAID" THEN finalAmount
                   ELSE IF paymentStatus = "PENDING" THEN 0
                   ELSE advancePaid
        status == IF paymentStatus # Null THEN paymentStatus
                  ELSE IF advance <= 0 THEN "PENDING"
                  ELSE IF advance >= finalAmount THEN "PAID" ELSE "PARTIAL"
    IN [payment EXCEPT !.totalAmount = finalAmount, !.advancePaid = advance,
                       !.status = status,
                       !.balanceAmount = Max(0, finalAmount - advance)]

\* The body of updateBooking (admin) on the view work
updateBookingBody(c, work, id, body) ==
    LET courtId == body.courtId
        startTime == body.startTime
        endTime == body.endTime
        discountType == body.discountType
        discountValue == body.discountValue
        status == body.status
        normalizedDate == normalizeToMidnight(body.bookingDate)
        found == FindBooking(work, id)
        booking == CHOOSE b \in found : TRUE
        isScheduleChanged ==
            \/ booking.courtId # courtId
            \/ normalizeToMidnight(booking.bookingDate) # normalizedDate
            \/ booking.startTime # startTime
            \/ booking.endTime # endTime
        isActiveStatus == status = "BOOKED"
        wasActiveStatus == booking.status = "BOOKED"
        court == CourtDoc(courtId)
        gen == generateSlots(startTime, endTime)
        potentialSlots == gen.slots
        calculatedBaseAmount == calculatePrice(court, Len(potentialSlots), body.bookingDate)
        reserve == isActiveStatus /\ (isScheduleChanged \/ ~wasActiveStatus)
        availability ==
            checkSlotAvailability(work, courtId, normalizedDate, startTime, endTime, id)
        discountChanged ==
            discountType # booking.discountType \/ discountValue # booking.discountValue
        recalc == reserve \/ (~isActiveStatus /\ isScheduleChanged)
        baseAmount == IF recalc THEN calculatedBaseAmount ELSE booking.baseAmount
        totalSlots == IF recalc THEN Len(potentialSlots) ELSE booking.totalSlots
        finalAmount == IF recalc \/ discountChanged
                       THEN EditFinalAmount(baseAmount, discountType, discountValue)
                       ELSE booking.finalAmount
        oldRows == IF reserve \/ ~isActiveStatus THEN SlotsOf(work, id) ELSE {}
        newRows == IF reserve
                   THEN {[bookingId |-> id, courtId |-> courtId,
                          bookingDate |-> body.bookingDate,
                          slotTime |-> potentialSlots[i], status |-> "BOOKED"] :
                            i \in 1..Len(potentialSlots)}
                   ELSE {}
        work1 == [work EXCEPT !.slots = @ \ oldRows]
        work2 == [work1 EXCEPT !.slots = @ \cup newRows]
        saved == [booking EXCEPT !.courtId = courtId, !.bookingDate = normalizedDate,
                                 !.startTime = startTime, !.endTime = endTime,
                                 !.totalSlots = totalSlots, !.baseAmount = baseAmount,
                                 !.discountType = discountType,
                                 !.discountValue = discountValue,
                                 !.finalAmount = finalAmount, !.status = status]
        work3 == [work2 EXCEPT !.bookings = (@ \ {booking}) \cup {saved}]
        pays == {p \in work.payments : p.bookingId = id}
        newPays == {EditPayment(p, finalAmount, Get(body, "advancePaid", 0),
                                Get(body, "paymentStatus", Null)) : p \in pays}
        work4 == [work3 EXCEPT !.payments = (@ \ pays) \cup newPays]
    IN IF found = {} THEN Outcome("BOOKING_NOT_FOUND", <<>>, work, FALSE)
       ELSE IF court.status # "ACTIVE"
       THEN Outcome("INVALID_OR_INACTIVE_COURT", <<>>, work, FALSE)
       ELSE IF gen.threw \/ Len(potentialSlots) = 0
       THEN Outcome("INVALID_RANGE", <<>>, work, FALSE)
       ELSE IF reserve /\ ~availability.available
       THEN Outcome("SLOT_CONFLICT", availability.conflicts, work, FALSE)
       ELSE IF WriteConflict(c, "slots", oldRows)
       THEN Outcome("WRITE_CONFLICT", <<>>, work, TRUE)
       ELSE IF UniqueIndexViolated(c, work1, newRows)
       THEN Outcome("E11000", <<>>, work1, TRUE)
       ELSE IF saved # booking /\ WriteConflict(c, "bookings", {booking})
       THEN Outcome("WRITE_CONFLICT", <<>>, work2, TRUE)
       ELSE IF newPays # pays /\ WriteConflict(c, "payments", pays)
       THEN Outcome("WRITE_CONFLICT", <<>>, work3, TRUE)
       ELSE Outcome("OK", <<>>, work4, FALSE)

\* PUT /api/admin/bookings/:id
updateBookingStart(c, id, body) ==
    /\ Ready(c)
    /\ sess' = [sess EXCEPT ![c] = StartTx("updateBooking", [id |-> id, body |-> body])]
    /\ UNCHANGED <<bookings, slots, payments, rules, nextId, nextRuleId, clock, generated>>

updateBooking(c) ==
    /\ sess[c].pc = "begun"
    /\ sess[c].op = "updateBooking"
    /\ Settle(c, updateBookingBody(c, sess[c].work, sess[c].args.id, sess[c].args.body),
              200, 400)
    /\ UNCHANGED <<nextId, nextRuleId, clock, generated>>

\* advancePaid === undefined, and startTime / endTime absent, in a request body
NoAdvance == -1
NoTime == <<>>

\* The bodies of updateBooking (staff) and of updateStaffCalendarBooking on the
\* view work.  They differ in the conflict check (calendar: checkSlotAvailability;
\* staff: slot rows of other bookings whose Booking is BOOKED), in the date of the
\* inserted rows and in the clamp of the balance.
timeEditBody(c, work, id, body, calendar) ==
    LET startTime == body.startTime
        endTime == body.endTime
        advancePaid == body.advancePaid
        found == FindBooking(work, id)
        booking == CHOOSE b \in found : TRUE
        timeChange == /\ startTime # NoTime
                      /\ endTime # NoTime
                      /\ (startTime # booking.startTime \/ endTime # booking.endTime)
        gen == generateSlots(startTime, endTime)
        slotList == gen.slots
        availability ==
            checkSlotAvailability(work, booking.courtId,
                                  normalizeToMidnight(booking.bookingDate),
                                  startTime, endTime, id)
        conflicts == {r \in work.slots :
                        /\ r.courtId = booking.courtId
                        /\ r.bookingDate = booking.bookingDate
                        /\ r.slotTime \in Range(slotList)
                        /\ r.bookingId # id}
        activeConflicts == {r \in conflicts :
                              \E b \in FindBooking(work, r.bookingId) : b.status = "BOOKED"}
        blocked == IF calendar THEN ~availability.available ELSE activeConflicts # {}
        oldRows == IF timeChange THEN SlotsOf(work, id) ELSE {}
        rowDate == IF calendar THEN normalizeToMidnight(booking.bookingDate)
                   ELSE booking.bookingDate
        newRows == IF timeChange
                   THEN {[bookingId |-> id, courtId |-> booking.courtId,
                          bookingDate |-> rowDate, slotTime |-> slotList[i],
                          status |-> "BOOKED"] : i \in 1..Len(slotList)}
                   ELSE {}
        newPrice == calculatePrice(CourtDoc(booking.courtId), Len(slotList),
                                   booking.bookingDate)
        saved == IF timeChange
                 THEN [booking EXCEPT !.startTime = startTime, !.endTime = endTime,
                                      !.totalSlots = Len(slotList),
                                      !.baseAmount = newPrice, !.finalAmount = newPrice]
                 ELSE booking
        pays == {q \in work.payments : q.bookingId = id}
        Paid(q) == IF advancePaid # NoAdvance THEN advancePaid ELSE q.advancePaid
        Balance(q) == IF calendar THEN Max(0, saved.finalAmount - Paid(q))
                      ELSE saved.finalAmount - Paid(q)
        newPays == {[q EXCEPT !.totalAmount = saved.finalAmount,
                              !.advancePaid = Paid(q),
                              !.balanceAmount = Balance(q),
                              !.status = IF Balance(q) = 0 THEN "PAID"
                                         ELSE IF Paid(q) > 0 THEN "PARTIAL"
                                         ELSE "PENDING"] : q \in pays}
        work1 == [work EXCEPT !.slots = @ \ oldRows]
        work2 == [work1 EXCEPT !.slots = @ \cup newRows]
        work3 == [work2 EXCEPT !.bookings = (@ \ {booking}) \cup {saved}]
        work4 == [work3 EXCEPT !.payments = (@ \ pays) \cup newPays]
    IN IF found = {} THEN Outcome("BOOKING_NOT_FOUND", <<>>, work, FALSE)
       ELSE IF booking.status = "CANCELLED"
       THEN Outcome("CANNOT_EDIT_CANCELLED", <<>>, work, FALSE)
       ELSE IF Get(booking, "bookingSource", Null) = "RECURRING"
       THEN Outcome("RECURRING_BOOKING", <<>>, work, FALSE)
       ELSE IF timeChange /\ gen.threw THEN Outcome("INVALID_RANGE", <<>>, work, FALSE)
       ELSE IF timeChange /\ blocked
       THEN Outcome(IF calendar THEN "SLOT_CONFLICT" ELSE "OVERLAPS",
                    IF calendar THEN availability.conflicts ELSE <<>>, work, FALSE)
       ELSE IF WriteConflict(c, "slots", oldRows)
       THEN Outcome("WRITE_CONFLICT", <<>>, work, TRUE)
       ELSE IF UniqueIndexViolated(c, work1, newRows)
       THEN Outcome("E11000", <<>>, work1, TRUE)
       ELSE IF saved # booking /\ WriteConflict(c, "bookings", {booking})
       THEN Outcome("WRITE_CONFLICT", <<>>, work2, TRUE)
       ELSE IF newPays # pays /\ WriteConflict(c, "payments", pays)
       THEN Outcome("WRITE_CONFLICT", <<>>, work3, TRUE)
       ELSE Outcome("OK", <<>>, work4, FALSE)

\* PUT /api/staff/bookings/:id (staff booking controller updateBooking)
staffUpdateBookingStart(c, id, body) ==
    /\ Ready(c)
    /\ sess' = [sess EXCEPT ![c] = StartTx("staffUpdateBooking", [id |-> id, body |-> body])]
    /\ UNCHANGED <<bookings, slots, payments, rules, nextId, nextRuleId, clock, generated>>

staffUpdateBooking(c) ==
    /\ sess[c].pc = "begun"
    /\ sess[c].op = "staffUpdateBooking"
    /\ Settle(c, timeEditBody(c, sess[c].work, sess[c].args.id, sess[c].args.body, FALSE),
              200, 400)
    /\ UNCHANGED <<nextId, nextRuleId, clock, generated>>

\* PUT /api/staff/calendar/bookings/:id
updateStaffCalendarBookingStart(c, id, body) ==
    /\ Ready(c)
    /\ sess' = [sess EXCEPT ![c] =
                   StartTx("updateStaffCalendarBooking", [id |-> id, body |-> body])]
    /\ UNCHANGED <<bookings, slots, payments, rules, nextId, nextRuleId, clock, generated>>

updateStaffCalendarBooking(c) ==
    /\ sess[c].pc = "begun"
    /\ sess[c].op = "updateStaffCalendarBooking"
    /\ Settle(c, timeEditBody(c, sess[c].work, sess[c].args.id, sess[c].args.body, TRUE),
              200, 400)
    /\ UNCHANGED <<nextId, nextRuleId, clock, generated>>

-----------------------------------------------------------------------------
\* The expiry sweep (cron.service initBookingCron, every 5 minutes)

\* moment() at the instants the clock runs through: today's midnight and HH:mm
Instants ==
    <<[today |-> Friday, currentTime |-> T1],
      [today |-> Saturday + 24, currentTime |-> T0]>>

\* Time passes.
Tick ==
    /\ clock < Len(Instants)
    /\ clock' = clock + 1
    /\ UNCHANGED <<bookings, slots, payments, rules, nextId, nextRuleId, sess, generated>>

\* A filter that takes the bookings of previous days only.
Expired_PastDaysOnly(b, now) ==
    /\ b.status = "BOOKED"
    /\ b.bookingDate < now.today

\* The filter of Booking.find in the sweep
Expired(b, now) ==
    /\ b.status = "BOOKED"
    /\ \/ b.bookingDate < now.today
       \/ /\ b.bookingDate >= now.today
          /\ b.bookingDate < now.today + 24
          /\ TimeLeq(b.endTime, now.currentTime)

\* A sweep that finds the expired bookings and writes nothing.
sweepBody_NoWrites(c, work, now) == Outcome("OK", <<>>, work, FALSE)

sweepBody(c, work, now) ==
    LET expiredBookings == {b \in work.bookings : Expired(b, now)}
        bookingIds == {b.id : b \in expiredBookings}
        rows == {r \in work.slots : r.bookingId \in bookingIds /\ r.status # "COMPLETED"}
        work1 == [work EXCEPT !.bookings =
                     (@ \ expiredBookings) \cup WithStatus(expiredBookings, "COMPLETED")]
        work2 == [work1 EXCEPT !.slots = (@ \ rows) \cup WithStatus(rows, "COMPLETED")]
    IN IF WriteConflict(c, "bookings", expiredBookings)
       THEN Outcome("WRITE_CONFLICT", <<>>, work, TRUE)
       ELSE IF WriteConflict(c, "slots", rows)
       THEN Outcome("WRITE_CONFLICT", <<>>, work1, TRUE)
       ELSE Outcome("OK", <<>>, work2, FALSE)

sweepStart(c) ==
    /\ Ready(c)
    /\ sess' = [sess EXCEPT ![c] = StartTx("sweep", [now |-> Instants[clock]])]
    /\ UNCHANGED <<bookings, slots, payments, rules, nextId, nextRuleId, clock, generated>>

sweep(c) ==
    /\ sess[c].pc = "begun"
    /\ sess[c].op = "sweep"
    /\ Settle(c, sweepBody(c, sess[c].work, sess[c].args.now), 0, 0)
    /\ UNCHANGED <<nextId, nextRuleId, clock, generated>>

-----------------------------------------------------------------------------
\* Recurring rules (recurringGenerator.service, recurring controller)

DAYS_MAP ==
    [d \in {"SUN", "MON", "TUE", "WED", "THU", "FRI", "SAT"} |->
        CASE d = "SUN" -> 0 [] d = "MON" -> 1 [] d = "TUE" -> 2 [] d = "WED" -> 3
          [] d = "THU" -> 4 [] d = "FRI" -> 5 [] d = "SAT" -> 6]

\* The calendar of the dates used: day 1 is Monday 2024-01-01.
MonthLengths == <<31, 29, 31, 30, 31, 30, 31, 31, 30, 31, 30, 31>>

RECURSIVE MonthStart(_)
\* Day number of the first day of month m
MonthStart(m) == IF m = 1 THEN 1 ELSE MonthStart(m - 1) + MonthLengths[m - 1]

\* Date.getMonth() + 1
MonthOf(date) ==
    CHOOSE m \in 1..12 : /\ MonthStart(m) <= date \div 24
                         /\ date \div 24 < MonthStart(m) + MonthLengths[m]

\* Date.getDate()
DayOfMonth(date) == date \div 24 - MonthStart(MonthOf(date)) + 1

\* date.setMonth(date.getMonth() + n): the day of the month carries over
AddMonths(date, n) == (MonthStart(MonthOf(date) + n) + DayOfMonth(date) - 1) * 24

\* Whether the loop of generateDates pushes the day it is at
DateMatches(rule, currentDate) ==
    IF rule.recurrenceType = "WEEKLY"
    THEN DayOfWeek(currentDate) \in {DAYS_MAP[d] : d \in rule.daysOfWeek}
    ELSE IF rule.recurrenceType = "MONTHLY"
    THEN DayOfMonth(currentDate) = rule.fixedDate
    ELSE FALSE

\* A loop that stops before the end date.
DatesFrom_Exclusive(rule, currentDate, endDate) ==
    LET visited == [i \in 1..(IF currentDate < endDate
                              THEN (endDate - 1 - currentDate) \div 24 + 1 ELSE 0) |->
                        currentDate + 24 * (i - 1)]
        hit(d) == DateMatches(rule, d)
        pushed == SelectSeq(visited, hit)
    IN [i \in 1..Len(pushed) |-> normalizeToMidnight(pushed[i])]

\* The while loop of generateDates: the days it visits are currentDate,
\* currentDate + 1 day, ... while not after endDate, in that order, and it
\* pushes the midnight of each day that matches the rule.
DatesFrom(rule, currentDate, endDate) ==
    LET visited == [i \in 1..(IF currentDate <= endDate
                              THEN (endDate - currentDate) \div 24 + 1 ELSE 0) |->
                        currentDate + 24 * (i - 1)]
        hit(d) == DateMatches(rule, d)
        pushed == SelectSeq(visited, hit)
    IN [i \in 1..Len(pushed) |-> normalizeToMidnight(pushed[i])]

generateDates(rule) ==
    LET currentDate == normalizeToMidnight(rule.startDate)
        endDate == IF rule.endDate # NoDate THEN normalizeToMidnight(rule.endDate)
                   ELSE AddMonths(currentDate, 3)
    IN DatesFrom(rule, currentDate, normalizeToMidnight(endDate))

\* The bookingData processRecurringBooking passes to createSingleBooking
RuleBookingData(rule, date) ==
    [courtId |-> rule.courtId, bookingDate |-> date,
     startTime |-> rule.startTime, endTime |-> rule.endTime,
     advancePaid |-> rule.advancePaid,
     discountType |-> rule.discountType, discountValue |-> rule.discountValue,
     bookingSource |-> "RECURRING", recurringRuleId |-> rule.id]

\* date.toISOString().split('T')[0]: the calendar day, as its day number (the
\* process runs in UTC)
ISODate(date) == date \div 24

RECURSIVE BookDates_Break(_, _, _, _)
\* A loop that records the first failing date and leaves the dates after it.
BookDates_Break(c, rule, dates, st) ==
    IF dates = <<>> THEN st
    ELSE LET date == Head(dates)
             r == createSingleBooking(c, st.work, RuleBookingData(rule, date), st.nextId)
         IN IF r.err = "OK"
            THEN BookDates_Break(c, rule, Tail(dates),
                     [st EXCEPT !.work = r.work, !.nextId = @ + 1, !.success = @ + 1])
            ELSE [st EXCEPT !.work = r.work, !.dbError = r.dbError, !.failed = @ + 1,
                            !.conflicts = Append(@, [date |-> ISODate(date),
                                                     reason |-> r.err])]

RECURSIVE BookDates(_, _, _, _)
\* The for loop of processRecurringBooking: st holds the view, the next Booking
\* id, whether the database has aborted the transaction, and the report.
BookDates(c, rule, dates, st) ==
    IF dates = <<>> THEN st
    ELSE LET date == Head(dates)
             r == IF st.dbError
                  THEN CoreResult("NO_SUCH_TRANSACTION", <<>>, st.work, NoId, TRUE)
                  ELSE createSingleBooking(c, st.work, RuleBookingData(rule, date), st.nextId)
             ok == r.err = "OK"
         IN BookDates(c, rule, Tail(dates),
                [work |-> r.work,
                 nextId |-> IF r.bookingId # NoId THEN st.nextId + 1 ELSE st.nextId,
                 dbError |-> st.dbError \/ r.dbError,
                 success |-> IF ok THEN st.success + 1 ELSE st.success,
                 failed |-> IF ok THEN st.failed ELSE st.failed + 1,
                 conflicts |-> IF ok THEN st.conflicts
                               ELSE Append(st.conflicts,
                                           [date |-> ISODate(date), reason |-> r.err])])

\* A processRecurringBooking that commits and ends the session it was given.
SessionCalls_Local(external, threw, dbError) ==
    IF threw THEN [commits |-> 0, aborts |-> 1, ends |-> 1]
    ELSE [commits |-> 1, aborts |-> 0, ends |-> 1]

\* The calls processRecurringBooking makes on the session it works with:
\* none on an external session; on its local session commitTransaction and
\* endSession after the loop, abortTransaction and endSession in the catch block
\* (which a commitTransaction refused by the database enters as well).
SessionCalls(external, threw, dbError) ==
    IF external THEN [commits |-> 0, aborts |-> 0, ends |-> 0]
    ELSE IF threw THEN [commits |-> 0, aborts |-> 1, ends |-> 1]
    ELSE IF dbError THEN [commits |-> 1, aborts |-> 1, ends |-> 1]
    ELSE [commits |-> 1, aborts |-> 0, ends |-> 1]

\* History of the generator: generated holds [bookingId, ruleId] for every
\* Booking a committed processRecurringBooking run of rule ruleId created.  The
\* program stores no such link (the documents are as createSingleBooking
\* writes them); the history is kept to state what belongs to a rule.
GeneratedBy(ruleId, created) == {[bookingId |-> b.id, ruleId |-> ruleId] : b \in created}

\* The history also holds [ruleId, ranAs] for every committed run: ranAs is the
\* rule document the run read.
RanAs(work, ruleId, committed) ==
    IF committed THEN {[ruleId |-> r.id, ranAs |-> r] : r \in {x \in work.rules : x.id = ruleId}}
    ELSE {}

\* What processRecurringBooking hands back after the loop (end) or the throw
Returning(end, threw, external) ==
    end @@ [threw |-> threw \/ (~external /\ end.dbError),
            calls |-> SessionCalls(external, threw, end.dbError)]

\* A processRecurringBooking whose report names no failed date.
processRecurringBooking_Silent(c, work, ruleId, id, external) ==
    LET found == {r \in work.rules : r.id = ruleId}
        rule == CHOOSE r \in found : TRUE
        start == [work |-> work, nextId |-> id, dbError |-> FALSE,
                  success |-> 0, failed |-> 0, conflicts |-> <<>>]
    IN IF found = {} \/ rule.status # "ACTIVE"
       THEN Returning(start, TRUE, external)
       ELSE Returning([BookDates(c, rule, generateDates(rule), start)
                           EXCEPT !.conflicts = <<>>], FALSE, external)

\* processRecurringBooking(ruleId, externalSession) run by session c on the view
\* work: the report or the throw, the view after the loop, and the calls made on
\* the session.
processRecurringBooking(c, work, ruleId, id, external) ==
    LET found == {r \in work.rules : r.id = ruleId}
        rule == CHOOSE r \in found : TRUE
        start == [work |-> work, nextId |-> id, dbError |-> FALSE,
                  success |-> 0, failed |-> 0, conflicts |-> <<>>]
    IN IF found = {} \/ rule.status # "ACTIVE"
       THEN Returning(start, TRUE, external)
       ELSE Returning(BookDates(c, rule, generateDates(rule), start), FALSE, external)

\* results, or the error thrown, as the caller sees it
Report(r) ==
    [err |-> IF r.threw THEN "RULE_NOT_FOUND_OR_INACTIVE" ELSE "OK",
     conflicts |-> r.conflicts, bookingId |-> NoId,
     success |-> r.success, failed |-> r.failed]

\* The RecurringBooking document createRecurringBooking inserts
RuleDoc(body, id) ==
    [id |-> id, courtId |-> body.courtId, recurrenceType |-> body.recurrenceType,
     daysOfWeek |-> body.daysOfWeek, fixedDate |-> body.fixedDate,
     startTime |-> body.startTime, endTime |-> body.endTime,
     startDate |-> normalizeToMidnight(body.startDate),
     endDate |-> normalizeToMidnight(body.endDate),
     advancePaid |-> body.advancePaid, discountType |-> body.discountType,
     discountValue |-> body.discountValue, status |-> "ACTIVE"]

\* Booking ids suffice for the bookings the rule of body generates on db.
RuleFits(c, db, body) ==
    LET rule == RuleDoc(body, nextRuleId)
        r == processRecurringBooking(c, [db EXCEPT !.rules = @ \cup {rule}], rule.id,
                                     nextId, TRUE)
    IN r.nextId <= MaxBookings + 1

\* POST /api/recurring-bookings
createRecurringBookingStart(c, body) ==
    /\ Ready(c)
    /\ nextRuleId <= MaxRules
    /\ RuleFits(c, Committed, body)
    /\ sess' = [sess EXCEPT ![c] =
                   StartTx("createRecurringBooking", [body |-> body, ruleId |-> NoId])]
    /\ UNCHANGED <<bookings, slots, payments, rules, nextId, nextRuleId, clock, generated>>

\* Pre-validation and RecurringBooking.create
createRecurringBookingRule(c) ==
    /\ sess[c].pc = "begun"
    /\ sess[c].op = "createRecurringBooking"
    /\ nextRuleId <= MaxRules
    /\ LET body == sess[c].args.body
           work == sess[c].work
           datesToBook == generateDates(RuleDoc(body, NoId))
           Availability(i) ==
               checkSlotAvailability(work, body.courtId, datesToBook[i],
                                     body.startTime, body.endTime, NoId)
           threw == \E i \in 1..Len(datesToBook) : Availability(i).threw
           conflictCount ==
               Cardinality({i \in 1..Len(datesToBook) : ~Availability(i).available})
           rule == RuleDoc(body, nextRuleId)
       IN IF Len(datesToBook) = 0 \/ threw
          THEN /\ sess' = [sess EXCEPT ![c].pc = "threw",
                                       ![c].out = [NoOut EXCEPT !.err =
                                           IF threw THEN "INVALID_RANGE" ELSE "NO_VALID_DATES"]]
               /\ UNCHANGED nextRuleId
          ELSE IF conflictCount = Len(datesToBook)
          THEN /\ sess' = [sess EXCEPT ![c] =
                              Done(End([@ EXCEPT !.out = [NoOut EXCEPT !.err = "DOUBLE_BOOKING"]]),
                                   409)]
               /\ UNCHANGED nextRuleId
          ELSE /\ sess' = [sess EXCEPT ![c].pc = "ruleCreated",
                                       ![c].work = [work EXCEPT !.rules = @ \cup {rule}],
                                       ![c].args = [@ EXCEPT !.ruleId = rule.id]]
               /\ nextRuleId' = nextRuleId + 1
    /\ UNCHANGED <<bookings, slots, payments, rules, nextId, clock, generated>>

\* Bookings a run of processRecurringBooking for an existing rule may add beyond
\* MaxBookings
MaxRerunBookings == 1

\* A caller of processRecurringBooking(ruleId, session) that owns the session
processWithSessionStart(c, ruleId) ==
    /\ Ready(c)
    /\ sess' = [sess EXCEPT ![c] = StartTx("processWithSession", [ruleId |-> ruleId])]
    /\ UNCHANGED <<bookings, slots, payments, rules, nextId, nextRuleId, clock, generated>>

\* await processRecurringBooking(ruleId, session) with the caller's session
processRecurringBookingCall(c) ==
    /\ \/ sess[c].op = "createRecurringBooking" /\ sess[c].pc = "ruleCreated"
       \/ sess[c].op = "processWithSession" /\ sess[c].pc = "begun"
    /\ LET r == processRecurringBooking(c, sess[c].work, sess[c].args.ruleId, nextId, TRUE)
       IN /\ r.nextId <= MaxBookings + 1
                         + (IF sess[c].op = "processWithSession" THEN MaxRerunBookings ELSE 0)
          /\ sess' = [sess EXCEPT ![c].pc = IF r.threw THEN "threw" ELSE "returned",
                                  ![c].work = r.work,
                                  ![c].out = Report(r),
                                  ![c].commits = @ + r.calls.commits,
                                  ![c].aborts = @ + r.calls.aborts,
                                  ![c].ends = @ + r.calls.ends,
                                  ![c].tx = IF r.calls.commits > 0 THEN "committed"
                                            ELSE IF r.calls.aborts > 0 THEN "aborted"
                                            ELSE IF r.dbError THEN "failed" ELSE @]
          /\ nextId' = r.nextId
    /\ UNCHANGED <<bookings, slots, payments, rules, nextRuleId, clock, generated>>

\* commitTransaction and the answer, or the catch block; finally endSession.
\* commitTransaction throws when the database has aborted the transaction.
ownerFinish(c, okCode, errCode) ==
    /\ \/ /\ sess[c].pc = "returned"
          /\ sess[c].tx = "active"
          /\ bookings' = Publish(c, "bookings")
          /\ slots' = Publish(c, "slots")
          /\ payments' = Publish(c, "payments")
          /\ rules' = Publish(c, "rules")
          /\ sess' = [sess EXCEPT ![c] = Done(End(Commit(@)), okCode)]
       \/ /\ sess[c].pc = "returned"
          /\ sess[c].tx = "failed"
          /\ sess' = [sess EXCEPT ![c] =
                         Done(End(Abort([@ EXCEPT !.commits = @ + 1])), errCode)]
          /\ UNCHANGED <<bookings, slots, payments, rules>>
       \/ /\ sess[c].pc = "threw"
          /\ sess' = [sess EXCEPT ![c] = Done(End(Abort(@)), errCode)]
          /\ UNCHANGED <<bookings, slots, payments, rules>>
    /\ generated' = generated \cup GeneratedBy(sess[c].args.ruleId, bookings' \ bookings)
                               \cup RanAs(sess[c].work, sess[c].args.ruleId,
                                          sess'[c].tx = "committed")
    /\ UNCHANGED <<nextId, nextRuleId, clock>>

createRecurringBookingFinish(c) ==
    /\ sess[c].op = "createRecurringBooking"
    /\ ownerFinish(c, 201, 400)

processWithSessionFinish(c) ==
    /\ sess[c].op = "processWithSession"
    /\ ownerFinish(c, 200, 400)

\* PUT /api/recurring-bookings/:id
updateRecurringBookingStart(c, id, updates) ==
    /\ Ready(c)
    /\ sess' = [sess EXCEPT ![c] =
                   StartTx("updateRecurringBooking", [ruleId |-> id, updates |-> updates])]
    /\ UNCHANGED <<bookings, slots, payments, rules, nextId, nextRuleId, clock, generated>>

\* findByIdAndUpdate in the transaction and commitTransaction.  On success the
\* local session of the processRecurringBooking(rule._id) that follows starts:
\* its snapshot is the state just committed, its calls are counted in local.
updateRecurringBookingSave(c) ==
    /\ sess[c].pc = "begun"
    /\ sess[c].op = "updateRecurringBooking"
    /\ LET id == sess[c].args.ruleId
           updates == sess[c].args.updates
           found == {r \in sess[c].work.rules : r.id = id}
           rule == CHOOSE r \in found : TRUE
           saved == updates @@ rule
           refused == found # {} /\ saved # rule /\ WriteConflict(c, "rules", {rule})
           newRules == (rules \ {rule}) \cup {saved}
           db == [Committed EXCEPT !.rules = newRules]
       IN IF found = {} \/ refused
          THEN /\ sess' = [sess EXCEPT ![c].pc = "threw",
                                       ![c].tx = IF refused THEN "failed" ELSE @,
                                       ![c].out = [NoOut EXCEPT !.err =
                                           IF refused THEN "WRITE_CONFLICT"
                                           ELSE "RULE_NOT_FOUND"]]
               /\ UNCHANGED rules
          ELSE /\ rules' = newRules
               /\ sess' = [sess EXCEPT ![c] =
                              [Commit(@) EXCEPT !.pc = "committed", !.snap = db, !.work = db]]
    /\ UNCHANGED <<bookings, slots, payments, nextId, nextRuleId, clock, generated>>

\* const results = await processRecurringBooking(rule._id) after the commit, and
\* the answer.  When it throws, the catch block calls abortTransaction on the
\* session already committed, which throws in turn: no answer is sent (code 0).
updateRecurringBookingProcess(c) ==
    /\ sess[c].op = "updateRecurringBooking"
    /\ \/ /\ sess[c].pc = "committed"
          /\ LET r == processRecurringBooking(c, sess[c].work, sess[c].args.ruleId,
                                              nextId, FALSE)
                 s == [sess[c] EXCEPT !.out = Report(r) @@ [local |-> r.calls]]
             IN /\ r.nextId <= MaxBookings + 1
                /\ nextId' = r.nextId
                /\ IF r.threw
                   THEN /\ sess' = [sess EXCEPT ![c] =
                                       Done(End([s EXCEPT !.aborts = @ + 1]), 0)]
                        /\ UNCHANGED <<bookings, slots, payments, rules>>
                   ELSE /\ bookings' = PublishView(c, r.work, "bookings")
                        /\ slots' = PublishView(c, r.work, "slots")
                        /\ payments' = PublishView(c, r.work, "payments")
                        /\ rules' = PublishView(c, r.work, "rules")
                        /\ sess' = [sess EXCEPT ![c] = Done(End(s), 200)]
       \/ /\ sess[c].pc = "threw"
          /\ sess' = [sess EXCEPT ![c] = Done(End(Abort(@)), 400)]
          /\ UNCHANGED <<bookings, slots, payments, rules, nextId>>
    /\ generated' = generated \cup GeneratedBy(sess[c].args.ruleId, bookings' \ bookings)
                               \cup RanAs(sess[c].work, sess[c].args.ruleId,
                                          sess'[c].code = 200)
    /\ UNCHANGED <<nextRuleId, clock>>

\* req.body of PUT /api/recurring-bookings/:id
RuleUpdates ==
    {[courtId |-> ActiveCourt, daysOfWeek |-> {"FRI", "SAT"}, endDate |-> Saturday],
     [endDate |-> Friday]}

\* PATCH /api/recurring-bookings/:id/status: findByIdAndUpdate outside any
\* transaction
toggleRecurringStatus(c, id, status) ==
    /\ Ready(c)
    /\ rules' = {IF r.id = id THEN [r EXCEPT !.status = status] ELSE r : r \in rules}
    /\ sess' = [sess EXCEPT ![c] = Done([IdleSess EXCEPT !.op = "toggleRecurringStatus"], 200)]
    /\ UNCHANGED <<bookings, slots, payments, nextId, nextRuleId, clock, generated>>

\* The bookings a filter on the paths recurringRuleId / bookingSource finds.
\* Neither path is in bookingSchema, so no document stores them; strictQuery is
\* the Mongoose option of that name, whose default depends on the Mongoose
\* version installed: when on, the conditions on unknown paths are dropped
\* from the filter, and a filter left empty matches every document.
ByRuleId(work, ruleId, strictQuery) ==
    IF strictQuery THEN work.bookings
    ELSE {b \in work.bookings : Get(b, "recurringRuleId", NoId) = ruleId}

ByRuleOrMetadata(work, rule, strictQuery) ==
    ByRuleId(work, rule.id, strictQuery)
    \cup {b \in work.bookings :
            /\ strictQuery \/ Get(b, "bookingSource", Null) = "RECURRING"
            /\ b.courtId = rule.courtId
            /\ b.startTime = rule.startTime
            /\ b.endTime = rule.endTime}

\* The body of deleteRecurringBooking on the view work
deleteRecurringBookingBody(c, work, id, strictQuery) ==
    LET found == {r \in work.rules : r.id = id}
        rule == CHOOSE r \in found : TRUE
        cleanup == ByRuleId(work, id, strictQuery)
        matched == ByRuleOrMetadata(work, rule, strictQuery)
        bookingIds == {b.id : b \in matched}
        rows == {r \in work.slots : r.bookingId \in bookingIds}
        pays == {q \in work.payments : q.bookingId \in bookingIds}
        work1 == [work EXCEPT !.bookings = @ \ cleanup]
        work2 == [work EXCEPT !.slots = @ \ rows, !.payments = @ \ pays,
                              !.bookings = @ \ matched, !.rules = @ \ found]
    IN IF found = {}
       THEN IF WriteConflict(c, "bookings", cleanup)
            THEN Outcome("WRITE_CONFLICT", <<>>, work, TRUE)
            ELSE Outcome("OK", <<>>, work1, FALSE)
       ELSE IF \/ WriteConflict(c, "slots", rows)
               \/ WriteConflict(c, "payments", pays)
               \/ WriteConflict(c, "bookings", matched)
               \/ WriteConflict(c, "rules", found)
       THEN Outcome("WRITE_CONFLICT", <<>>, work, TRUE)
       ELSE Outcome("OK", <<>>, work2, FALSE)

\* DELETE /api/recurring-bookings/:id
deleteRecurringBookingStart(c, id, strictQuery) ==
    /\ Ready(c)
    /\ sess' = [sess EXCEPT ![c] =
                   StartTx("deleteRecurringBooking",
                           [ruleId |-> id, strictQuery |-> strictQuery])]
    /\ UNCHANGED <<bookings, slots, payments, rules, nextId, nextRuleId, clock, generated>>

deleteRecurringBooking(c) ==
    /\ sess[c].pc = "begun"
    /\ sess[c].op = "deleteRecurringBooking"
    /\ Settle(c, deleteRecurringBookingBody(c, sess[c].work, sess[c].args.ruleId,
                                            sess[c].args.strictQuery), 200, 400)
    /\ UNCHANGED <<nextId, nextRuleId, clock, generated>>

RuleIds == 1..MaxRules

RuleBody(courtId, recurrenceType, daysOfWeek, fixedDate, startTime, endTime, startDate, endDate) ==
    [courtId |-> courtId, recurrenceType |-> recurrenceType, daysOfWeek |-> daysOfWeek,
     fixedDate |-> fixedDate, startTime |-> startTime, endTime |-> endTime,
     startDate |-> startDate, endDate |-> endDate,
     advancePaid |-> 0, discountType |-> "NONE", discountValue |-> 0]

\* req.body of POST /api/recurring-bookings
RuleBodies ==
    {RuleBody(ActiveCourt, "WEEKLY", {"FRI", "SAT"}, 0, T0, T1, Friday, Saturday + 10),
     RuleBody(ActiveCourt, "WEEKLY", {"SUN"}, 0, T0, T1, Friday, Saturday),
     RuleBody(ActiveCourt, "MONTHLY", {}, 5, T1, T2, Friday - 24, Saturday),
     RuleBody(InactiveCourt, "WEEKLY", {"FRI"}, 0, T0, T1, Friday, NoDate)}

StaffBody(courtId, bookingDate, startTime, endTime, advancePaid, complete) ==
    [courtId |-> courtId, bookingDate |-> bookingDate, startTime |-> startTime,
     endTime |-> endTime, advancePaid |-> advancePaid, complete |-> complete]

\* req.body of POST /api/staff/bookings
StaffBodies ==
    {StaffBody(ActiveCourt, Friday, T0, T1, 0, TRUE),
     StaffBody(ActiveCourt, Friday, T1, T0, 0, TRUE),
     StaffBody(InactiveCourt, Friday, T0, T1, 0, TRUE),
     StaffBody(ActiveCourt, Friday, T0, T1, 0, FALSE)}

\* req.body of PUT /api/staff/bookings/:id and PUT /api/staff/calendar/bookings/:id
StaffEditBodies ==
    {[startTime |-> T0, endTime |-> T1, advancePaid |-> NoAdvance],
     [startTime |-> T1, endTime |-> T2, advancePaid |-> NoAdvance],
     [startTime |-> T1, endTime |-> T0, advancePaid |-> NoAdvance],
     [startTime |-> NoTime, endTime |-> NoTime, advancePaid |-> NoAdvance]}

EditBody(courtId, bookingDate, startTime, endTime, discountType, discountValue, advancePaid, status, paymentStatus) ==
    [courtId |-> courtId, bookingDate |-> bookingDate, startTime |-> startTime,
     endTime |-> endTime, discountType |-> discountType,
     discountValue |-> discountValue, advancePaid |-> advancePaid,
     status |-> status, paymentStatus |-> paymentStatus]

\* req.body of PUT /api/admin/bookings/:id
EditBodies ==
    {EditBody(ActiveCourt, Friday, T0, T1, "NONE", 0, 0, st, Null) : st \in Statuses}
    \cup {EditBody(ActiveCourt, Friday + 10, T0, T2, "NONE", 0, 0, "BOOKED", Null),
          EditBody(InactiveCourt, Friday, T0, T1, "NONE", 0, 0, "BOOKED", Null)}

Clients == {"r1", "r2"}
SeqClients == {"r1"}

----------------------------------------------------------------------------
\* Specifications

Init ==
    /\ bookings = {}
    /\ slots = {}
    /\ payments = {}
    /\ rules = {}
    /\ nextId = 1
    /\ nextRuleId = 1
    /\ clock = 1
    /\ generated = {}
    /\ sess = [c \in Clients |-> IdleSess]

\* Requests are served one at a time.
Next ==
    \/ Tick
    \/ \E c \in SeqClients :
            \/ \E body \in CreateBodies : createBookingStart(c, body)
            \/ createBookingCall(c)
            \/ createBookingFinish(c)
            \/ \E id \in BookingIds, st \in Statuses : updateBookingStatusStart(c, id, st)
            \/ updateBookingStatus(c)
            \/ \E id \in BookingIds : deleteBookingStart(c, id)
            \/ deleteBooking(c)
            \/ \E id \in BookingIds : staffDeleteBookingStart(c, id)
            \/ staffDeleteBooking(c)
            \/ \E id \in BookingIds : deleteStaffCalendarBookingStart(c, id)
            \/ deleteStaffCalendarBooking(c)
            \/ \E id \in BookingIds : cancelBookingStart(c, id)
            \/ cancelBooking(c)
            \/ \E id \in BookingIds : cancelStaffCalendarBookingStart(c, id)
            \/ cancelStaffCalendarBooking(c)
            \/ \E body \in StaffBodies : createStaffBookingStart(c, body)
            \/ createStaffBooking(c)
            \/ \E id \in BookingIds, body \in EditBodies : updateBookingStart(c, id, body)
            \/ updateBooking(c)
            \/ \E id \in BookingIds, body \in StaffEditBodies : staffUpdateBookingStart(c, id, body)
            \/ staffUpdateBooking(c)
            \/ \E id \in BookingIds, body \in StaffEditBodies :
                    updateStaffCalendarBookingStart(c, id, body)
            \/ updateStaffCalendarBooking(c)
            \/ sweepStart(c)
            \/ sweep(c)

Spec == Init /\ [][Next]_vars

\* req.body of POST /api/admin/bookings next to recurring rules
RuleCreateBodies ==
    {Body(ActiveCourt, Friday, s, e, "NONE", 0, 0, Null) :
        s \in TimePoints \ {T2}, e \in TimePoints \ {T0}}
    \cup {Body(ActiveCourt, Saturday, T0, T1, "NONE", 0, 0, Null)}

\* Recurring rules, with manual bookings made and cancelled beside them; requests
\* are served one at a time.
NextRecurring ==
    \E c \in SeqClients :
        \/ \E body \in RuleCreateBodies : createBookingStart(c, body)
        \/ createBookingCall(c)
        \/ createBookingFinish(c)
        \/ \E id \in BookingIds : cancelStaffCalendarBookingStart(c, id)
        \/ cancelStaffCalendarBooking(c)
        \/ \E body \in RuleBodies : createRecurringBookingStart(c, body)
        \/ createRecurringBookingRule(c)
        \/ \E id \in RuleIds \cup {MaxRules + 1} : processWithSessionStart(c, id)
        \/ processRecurringBookingCall(c)
        \/ createRecurringBookingFinish(c)
        \/ processWithSessionFinish(c)
        \/ \E id \in RuleIds, st \in {"ACTIVE", "PAUSED"} : toggleRecurringStatus(c, id, st)
        \/ \E id \in RuleIds, u \in RuleUpdates : updateRecurringBookingStart(c, id, u)
        \/ updateRecurringBookingSave(c)
        \/ updateRecurringBookingProcess(c)
        \/ \E id \in RuleIds \cup {MaxRules + 1}, strictQuery \in BOOLEAN :
                deleteRecurringBookingStart(c, id, strictQuery)
        \/ deleteRecurringBooking(c)

SpecRecurring == Init /\ [][NextRecurring]_vars

\* req.body of POST /api/recurring-bookings with an advance of 125: more than
\* the final amount of one slot on a weekday (100), less than that of one slot
\* on a weekend day (150)
AdvanceRuleBodies ==
    {[RuleBody(ActiveCourt, "WEEKLY", {"FRI", "SAT"}, 0, T0, T1, Friday, Saturday)
         EXCEPT !.advancePaid = 125 * Unit],
     RuleBody(ActiveCourt, "WEEKLY", {"FRI", "SAT"}, 0, T0, T1, Friday, Saturday),
     RuleBody(InactiveCourt, "WEEKLY", {"FRI"}, 0, T0, T1, Friday, Friday)}

\* Rules created over dates on which manual bookings were made and cancelled
\* (their slot rows kept as CANCELLED); requests are served one at a time.
NextBatch ==
    \E c \in SeqClients :
        \/ \E body \in RuleCreateBodies : createBookingStart(c, body)
        \/ createBookingCall(c)
        \/ createBookingFinish(c)
        \/ \E id \in BookingIds : cancelStaffCalendarBookingStart(c, id)
        \/ cancelStaffCalendarBooking(c)
        \/ \E body \in AdvanceRuleBodies : createRecurringBookingStart(c, body)
        \/ createRecurringBookingRule(c)
        \/ processRecurringBookingCall(c)
        \/ createRecurringBookingFinish(c)

SpecBatch == Init /\ [][NextBatch]_vars

\* Booking creation by concurrent requests, each in its own transaction, with
\* cancellations that keep the slot rows (CANCELLED) or delete them.
NextCreate ==
    \E c \in Clients :
        \/ \E body \in CreateBodies : createBookingStart(c, body)
        \/ createBookingCall(c)
        \/ createBookingFinish(c)
        \/ \E id \in BookingIds : cancelStaffCalendarBookingStart(c, id)
        \/ cancelStaffCalendarBooking(c)
        \/ \E id \in BookingIds : cancelBookingStart(c, id)
        \/ cancelBooking(c)

SpecCreate == Init /\ [][NextCreate]_vars

----------------------------------------------------------------------------
\* PATCH /api/payments/:id/mark-paid (payment controller markAsPaid): no
\* transaction; payment.save() writes the two fields it changed.  A Payment is
\* named by the booking it belongs to.
markAsPaid(c, id) ==
    /\ Ready(c)
    /\ LET found == {q \in payments : q.bookingId = id}
       IN /\ payments' = (payments \ found)
                         \cup {[q EXCEPT !.balanceAmount = 0, !.status = "PAID"] : q \in found}
          /\ sess' = [sess EXCEPT ![c] =
                         Done([IdleSess EXCEPT !.op = "markAsPaid"],
                              IF found = {} THEN 404 ELSE 200)]
    /\ UNCHANGED <<bookings, slots, rules, nextId, nextRuleId, clock, generated>>

\* req.body of POST /api/admin/bookings with discounts, advances and payment
\* status overrides
PayBodies ==
    {Body(ActiveCourt, Friday, T0, T1, "NONE", 0, 0, Null),
     Body(ActiveCourt, Friday, T0, T1, "PERCENT", 50, 25 * Unit, Null),
     Body(ActiveCourt, Friday, T0, T1, "PERCENT", 50, 50 * Unit, Null),
     Body(ActiveCourt, Friday, T0, T1, "PERCENT", 50, 60 * Unit, Null),
     Body(ActiveCourt, Saturday, T0, T1, "PERCENT", 33, 0, Null),
     Body(ActiveCourt, Saturday, T0, T1, "FLAT", 200, 0, Null),
     Body(ActiveCourt, Friday, T0, T1, "NONE", 0, 0, "PARTIAL"),
     Body(ActiveCourt, Saturday, T0, T1, "NONE", 0, 100 * Unit, "PENDING"),
     Body(ActiveCourt, Friday, T0, T2, "FLAT", 30, 0, "PAID")}

\* req.body of PUT /api/admin/bookings/:id with discounts and payment fields
PayEditBodies ==
    {EditBody(ActiveCourt, Saturday, T0, T1, "PERCENT", 33, 0, "BOOKED", Null),
     EditBody(ActiveCourt, Friday, T0, T1, "PERCENT", 50, 60 * Unit, "BOOKED", "PARTIAL"),
     EditBody(ActiveCourt, Friday, T0, T2, "NONE", 0, 0, "BOOKED", "PAID")}

\* req.body of the staff and calendar edits with an advance
StaffPayEditBodies ==
    {[startTime |-> T0, endTime |-> T2, advancePaid |-> NoAdvance],
     [startTime |-> NoTime, endTime |-> NoTime, advancePaid |-> 25 * Unit],
     [startTime |-> T0, endTime |-> T1, advancePaid |-> 300 * Unit]}

\* Amounts and payments: bookings created with discounts and advances, edited by
\* admin and staff, and marked as paid; requests are served one at a time.
NextPayment ==
    \E c \in SeqClients :
        \/ \E body \in PayBodies : createBookingStart(c, body)
        \/ createBookingCall(c)
        \/ createBookingFinish(c)
        \/ \E id \in BookingIds, body \in PayEditBodies : updateBookingStart(c, id, body)
        \/ updateBooking(c)
        \/ \E id \in BookingIds, body \in StaffPayEditBodies : staffUpdateBookingStart(c, id, body)
        \/ staffUpdateBooking(c)
        \/ \E id \in BookingIds, body \in StaffPayEditBodies :
                updateStaffCalendarBookingStart(c, id, body)
        \/ updateStaffCalendarBooking(c)
        \/ \E id \in BookingIds : markAsPaid(c, id)

SpecPayment == Init /\ [][NextPayment]_vars

----------------------------------------------------------------------------
\* The sweep beside the requests: the cron job runs in the server process and
\* its transaction is concurrent with those of the request handlers.

\* The context of the cron job
Sweeper == "r2"

\* req.body of POST /api/admin/bookings beside the sweep
SweepCreateBodies ==
    {Body(ActiveCourt, Friday, T0, T1, "NONE", 0, 0, Null),
     Body(ActiveCourt, Friday, T1, T2, "NONE", 0, 0, Null)}

NextSweep ==
    \/ Tick
    \/ sweepStart(Sweeper)
    \/ sweep(Sweeper)
    \/ \E c \in SeqClients :
            \/ \E body \in SweepCreateBodies : createBookingStart(c, body)
            \/ createBookingCall(c)
            \/ createBookingFinish(c)
            \/ \E id \in BookingIds : cancelStaffCalendarBookingStart(c, id)
            \/ cancelStaffCalendarBooking(c)
            \/ \E id \in BookingIds, st \in Statuses : updateBookingStatusStart(c, id, st)
            \/ updateBookingStatus(c)
            \/ \E id \in BookingIds : deleteBookingStart(c, id)
            \/ deleteBooking(c)

SpecSweep == Init /\ [][NextSweep]_vars

\* cron.schedule('*/5 * * * *', ...): the job is started again and again, and a
\* job that has started runs to its commit or abort.
SpecSweepFair ==
    SpecSweep /\ WF_vars(sweepStart(Sweeper)) /\ WF_vars(sweep(Sweeper))

----------------------------------------------------------------------------
\* checkSlotAvailability called on its own (session = null): it reads the
\* committed rows.

\* The arguments of the call
AvailabilityArgs ==
    {[courtId |-> k, bookingDate |-> d, startTime |-> r[1], endTime |-> r[2],
      excludeBookingId |-> x] :
        k \in {ActiveCourt, InactiveCourt}, d \in {Friday, Friday + 10, Saturday},
        r \in {<<T0, T1>>, <<T1, T2>>, <<T0, T2>>, <<T1, T0>>},
        x \in {NoId} \cup BookingIds}

checkSlotAvailabilityCall(c, a) ==
    /\ Ready(c)
    /\ sess' = [sess EXCEPT ![c] =
                   Called("checkSlotAvailability", a,
                          checkSlotAvailability(Committed, a.courtId, a.bookingDate,
                                                a.startTime, a.endTime,
                                                a.excludeBookingId))]
    /\ UNCHANGED <<bookings, slots, payments, rules, nextId, nextRuleId, clock, generated>>

\* Availability checks between bookings that are created, cancelled (rows kept
\* or deleted) and edited; requests are served one at a time.
NextAvailability ==
    \E c \in SeqClients :
        \/ \E body \in CreateBodies : createBookingStart(c, body)
        \/ createBookingCall(c)
        \/ createBookingFinish(c)
        \/ \E id \in BookingIds : cancelStaffCalendarBookingStart(c, id)
        \/ cancelStaffCalendarBooking(c)
        \/ \E id \in BookingIds : cancelBookingStart(c, id)
        \/ cancelBooking(c)
        \/ \E id \in BookingIds, body \in EditBodies : updateBookingStart(c, id, body)
        \/ updateBooking(c)
        \/ \E a \in AvailabilityArgs : checkSlotAvailabilityCall(c, a)

SpecAvailability == Init /\ [][NextAvailability]_vars

----------------------------------------------------------------------------
\* The pure services, called on inputs drawn from bounded sets.  A call is
\* recorded in the caller's context: op, args and the value returned in out.

\* Number of 5-minute steps after opening among the "HH:mm" inputs
MaxTimeSteps == 9

\* "HH:mm" inputs: on and off the quarter-hour grid, and the end of the day
PureTimes ==
    {FormatTime(OpenHour * 60 + 5 * k) : k \in 0..MaxTimeSteps}
    \cup {<<23, 50>>, <<23, 59>>}

\* generateSlots(startTime, endTime)
generateSlotsCall(c, startTime, endTime) ==
    /\ sess' = [sess EXCEPT ![c] =
                   Called("generateSlots", [startTime |-> startTime, endTime |-> endTime],
                          generateSlots(startTime, endTime))]
    /\ UNCHANGED <<bookings, slots, payments, rules, nextId, nextRuleId, clock, generated>>

\* The rule object after generateDates(rule): currentDate and endDate are Date
\* objects made by normalizeToMidnight and new Date, so setDate and setMonth
\* change no field of the rule.
RuleAfterGenerateDates(rule) == rule

\* Rules as generateDates reads them.  Day 5 is Friday 2024-01-05, day 31 is
\* 2024-01-31, day 41 is 2024-02-10, day 70 is 2024-03-10.
PureRules ==
    {[recurrenceType |-> "WEEKLY", daysOfWeek |-> w, fixedDate |-> 0,
      startDate |-> s, endDate |-> e] :
        w \in {{"FRI"}, {"MON", "SAT"}, {}}, s \in {Friday, Friday + 10, 31 * 24, 41 * 24},
        e \in {NoDate, Saturday + 10, 70 * 24, Friday - 24}}
    \cup {[recurrenceType |-> "MONTHLY", daysOfWeek |-> {}, fixedDate |-> f,
           startDate |-> s, endDate |-> e] :
            f \in {5, 31}, s \in {Friday, Friday + 10, 31 * 24, 41 * 24},
            e \in {NoDate, Saturday + 10, 70 * 24, Friday - 24}}

\* generateDates(rule)
generateDatesCall(c, rule) ==
    /\ sess' = [sess EXCEPT ![c] =
                   Called("generateDates", [rule |-> rule],
                          [dates |-> generateDates(rule),
                           rule |-> RuleAfterGenerateDates(rule)])]
    /\ UNCHANGED <<bookings, slots, payments, rules, nextId, nextRuleId, clock, generated>>

MaxPureSlots == 4

\* Court documents as calculatePrice reads them
PureCourts ==
    {CourtDoc(ActiveCourt), CourtDoc(InactiveCourt),
     [status |-> "ACTIVE", weekdayPrice |-> 250, weekendPrice |-> 333],
     [status |-> "ACTIVE", weekdayPrice |-> 500, weekendPrice |-> 500]}

\* Booking dates: the seven days from Monday 2024-01-01, at midnight and late
\* in the evening
PureDates == {d * 24 + h : d \in 1..7, h \in {0, 23}}

\* calculatePrice(court, totalSlots, bookingDate)
calculatePriceCall(c, court, totalSlots, bookingDate) ==
    /\ sess' = [sess EXCEPT ![c] =
                   Called("calculatePrice",
                          [court |-> court, totalSlots |-> totalSlots,
                           bookingDate |-> bookingDate],
                          calculatePrice(court, totalSlots, bookingDate))]
    /\ UNCHANGED <<bookings, slots, payments, rules, nextId, nextRuleId, clock, generated>>

NextPure ==
    \E c \in SeqClients :
        \/ \E startTime \in PureTimes, endTime \in PureTimes :
                generateSlotsCall(c, startTime, endTime)
        \/ \E rule \in PureRules : generateDatesCall(c, rule)
        \/ \E court \in PureCourts, totalSlots \in 0..MaxPureSlots, bookingDate \in PureDates :
                calculatePriceCall(c, court, totalSlots, bookingDate)

SpecPure == Init /\ [][NextPure]_vars

-----------------------------------------------------------------------------
\* Properties

\* The calendar day a slot row is stored for
DayOf(r) == normalizeToMidnight(r.bookingDate)

\* C1: in every reachable state each (court, date, slotTime) has at most one
\* BookingSlot row with status BOOKED.
C1_OneBookedRowPerSlot ==
    \A x \in slots, y \in slots :
        (/\ x.status = "BOOKED"
         /\ y.status = "BOOKED"
         /\ x.courtId = y.courtId
         /\ DayOf(x) = DayOf(y)
         /\ x.slotTime = y.slotTime) => x = y

\* The slot labels a request, a booking or a rule asks for
Labels(x) == Range(generateSlots(x.startTime, x.endTime).slots)

\* The labels of x's range that BOOKED rows of db hold on x's court and day
BookedLabels(db, x) ==
    {r.slotTime : r \in {y \in db.slots : /\ y.status = "BOOKED"
                                          /\ y.courtId = x.courtId
                                          /\ DayOf(y) = normalizeToMidnight(x.bookingDate)
                                          /\ y.slotTime \in Labels(x)}}

\* A booking other than x holds a BOOKED row in x's range
HeldByOthers(db, x) ==
    \E r \in db.slots :
        /\ r.bookingId # x.id
        /\ r.status = "BOOKED"
        /\ r.courtId = x.courtId
        /\ DayOf(r) = normalizeToMidnight(x.bookingDate)
        /\ r.slotTime \in Labels(x)

\* Errors of the conflict class
ConflictClass == {"SLOT_CONFLICT", "E11000"}

\* C2: of createSingleBooking calls for the identical court, date and range that
\* run concurrently, at most one succeeds, and a call that loses against the one
\* that succeeds fails with the pre-check conflict or the uniqueness violation.
C2_OneWinnerConflictForLosers ==
    \A c \in Clients, d \in Clients :
        (/\ c # d
         /\ sess[c].op = "createBooking"
         /\ sess[d].op = "createBooking"
         /\ sess[c].pc \in {"returned", "threw"}
         /\ sess[d].pc = "returned"
         /\ sess[c].args = sess[d].args)
        => /\ sess[c].pc = "threw"
           /\ sess[c].out.err \in ConflictClass
           /\ sess[c].out.bookingId = NoId \/ sess[c].tx = "failed"

\* A request without discount, advance or payment override
Plain(body) ==
    /\ Get(body, "discountType", "NONE") = "NONE"
    /\ Get(body, "advancePaid", 0) = 0
    /\ Get(body, "paymentStatus", Null) = Null

\* C3: a createSingleBooking call on an active court, requests being served one
\* at a time, fails with a slot conflict exactly when a requested label is
\* already BOOKED on that court and date; the conflict list is then the sorted
\* requested labels that are BOOKED (all of them when the range repeats that of
\* a BOOKED booking), and otherwise the call succeeds.
C3_ConflictListIsBookedLabels ==
    \A c \in Clients :
        (/\ sess[c].op = "createBooking"
         /\ sess[c].pc \in {"returned", "threw"}
         /\ CourtDoc(sess[c].args.courtId).status = "ACTIVE"
         /\ ~generateSlots(sess[c].args.startTime, sess[c].args.endTime).threw)
        => LET taken == BookedLabels(sess[c].snap, sess[c].args)
           IN IF taken # {}
              THEN /\ sess[c].pc = "threw"
                   /\ sess[c].out.err = "SLOT_CONFLICT"
                   /\ sess[c].out.conflicts = SortTimes(taken)
              ELSE Plain(sess[c].args) => sess[c].pc = "returned"

\* The second of two requests for the same two-slot range has failed with both
\* labels in its conflict list.
C3_Witness ==
    \E c \in Clients :
        /\ sess[c].op = "createBooking"
        /\ sess[c].pc = "threw"
        /\ sess[c].out.err = "SLOT_CONFLICT"
        /\ Len(sess[c].out.conflicts) = 2
        /\ sess[c].out.conflicts =
              generateSlots(sess[c].args.startTime, sess[c].args.endTime).slots
        /\ \E b \in sess[c].snap.bookings :
              /\ b.status = "BOOKED"
              /\ b.startTime = sess[c].args.startTime
              /\ b.endTime = sess[c].args.endTime

\* The step in which createBooking finishes for c
CreateBookingEnds(c) ==
    /\ sess[c].op = "createBooking"
    /\ sess[c].pc \in {"returned", "threw"}
    /\ sess'[c].pc = "done"

\* C4: createBooking is all-or-nothing: when it succeeds, one Booking with
\* status BOOKED, one BOOKED slot row for each of its slots and one Payment are
\* committed in the same step; when it fails the transaction is aborted and
\* the committed bookings, slot rows and payments stay as they were.
C4_CreateBookingAllOrNothing ==
    [][\A c \in Clients :
         CreateBookingEnds(c) =>
            IF sess[c].pc = "returned"
            THEN /\ sess'[c].tx = "committed"
                 /\ \E b \in bookings' \ bookings :
                       /\ bookings' = bookings \cup {b}
                       /\ b.id = sess[c].out.bookingId
                       /\ b.status = "BOOKED"
                       /\ \A r \in slots' \ slots :
                             r.bookingId = b.id /\ r.status = "BOOKED"
                       /\ {r.slotTime : r \in slots' \ slots} = Labels(b)
                       /\ Cardinality(slots' \ slots) = b.totalSlots
                       /\ \E q \in payments' \ payments :
                             payments' = payments \cup {q} /\ q.bookingId = b.id
            ELSE /\ sess'[c].tx = "aborted"
                 /\ sess'[c].aborts = 1
                 /\ sess'[c].commits = 0
                 /\ bookings' = bookings
                 /\ slots' = slots
                 /\ payments' = payments]_vars

\* A createBooking that lost a race at insert time has been answered, with the
\* winner's booking committed.
C4_Witness ==
    \E c \in Clients :
        /\ sess[c].op = "createBooking"
        /\ sess[c].pc = "done"
        /\ sess[c].out.err = "E11000"
        /\ sess[c].tx = "aborted"
        /\ Cardinality(bookings) = 1
        /\ Cardinality(payments) = 1

\* The step in which updateRecurringBooking answers 200 after the
\* processRecurringBooking run in its own transaction
LocalRunEnds(c) ==
    /\ sess[c].op = "updateRecurringBooking"
    /\ sess[c].pc = "committed"
    /\ sess'[c].pc = "done"
    /\ sess'[c].code = 200

\* C5: processRecurringBooking in its own transaction, over N dates of which K
\* fail, reports success N - K, failed K and K conflict entries, one for each
\* failed date; the loop goes on after a failure; after the commit the N - K
\* bookings with their slot rows and payments are in the database.
C5_ReportMatchesCommitted ==
    [][\A c \in Clients :
         LocalRunEnds(c) =>
            LET rule == CHOOSE r \in sess[c].work.rules : r.id = sess[c].args.ruleId
                dates == generateDates(rule)
                out == sess'[c].out
                new == bookings' \ bookings
                Failed == {i \in 1..Len(dates) :
                             ~\E b \in new : /\ b.bookingDate = dates[i]
                                             /\ b.courtId = rule.courtId
                                             /\ b.startTime = rule.startTime
                                             /\ b.endTime = rule.endTime}
            IN /\ out.failed = Cardinality(Failed)
               /\ out.success = Len(dates) - Cardinality(Failed)
               /\ Len(out.conflicts) = Cardinality(Failed)
               /\ {out.conflicts[i].date : i \in 1..Len(out.conflicts)}
                     = {ISODate(dates[i]) : i \in Failed}
               /\ \A i \in 1..Len(out.conflicts) : out.conflicts[i].reason # "OK"
               /\ Cardinality(new) = out.success
               /\ \A b \in new :
                     /\ b.status = "BOOKED"
                     /\ {r.slotTime : r \in {x \in slots' \ slots : x.bookingId = b.id}}
                           = Labels(b)
                     /\ \E q \in payments' \ payments : q.bookingId = b.id
               /\ out.local = [commits |-> 1, aborts |-> 0, ends |-> 1]]_vars

\* A run in its own transaction has been answered with its first date failed
\* and the date after it booked, and that booking is committed.
C5_Witness ==
    \E c \in Clients :
        /\ sess[c].op = "updateRecurringBooking"
        /\ sess[c].pc = "done"
        /\ sess[c].code = 200
        /\ sess[c].out.success = 1
        /\ sess[c].out.failed = 1
        /\ sess[c].out.conflicts[1].date = ISODate(Friday)
        /\ \E b \in bookings : b.bookingDate = Saturday /\ b.status = "BOOKED"

\* C6: the bookings processRecurringBooking creates for a rule carry source
\* RECURRING and recurringId equal to the rule's id; the bookings createBooking
\* creates carry source MANUAL and no rule reference.
C6_RecurringBookingsAreTagged ==
    \A c \in Clients :
        sess[c].pc = "returned" =>
            \A b \in sess[c].work.bookings \ sess[c].snap.bookings :
                IF sess[c].op \in {"createRecurringBooking", "processWithSession"}
                THEN b.source = "RECURRING" /\ b.recurringId = sess[c].args.ruleId
                ELSE b.source = "MANUAL" /\ b.recurringId = NoId

\* The bookingData of a new booking over the range of booking b
SameRange(b) ==
    [courtId |-> b.courtId, bookingDate |-> b.bookingDate,
     startTime |-> b.startTime, endTime |-> b.endTime]

\* C7: once a booking is CANCELLED (by updateBookingStatus, cancelBooking or
\* cancelStaffCalendarBooking) and no other booking holds its slots,
\* checkSlotAvailability over its court, date and range answers available, and
\* a createSingleBooking for that range succeeds.
C7_CancelledRangeIsFree ==
    \A b \in bookings :
        (b.status = "CANCELLED" /\ ~HeldByOthers(Committed, b))
        => /\ checkSlotAvailability(Committed, b.courtId, b.bookingDate,
                                    b.startTime, b.endTime, NoId).available
           /\ \A c \in SeqClients :
                 Ready(c) => createSingleBooking(c, Committed, SameRange(b), nextId).err = "OK"

\* A cancel path that keeps the slot rows has answered 200, and the rows of the
\* cancelled booking are still stored.
C7_Witness ==
    \E c \in SeqClients, b \in bookings :
        /\ sess[c].pc = "done"
        /\ sess[c].op \in {"cancelStaffCalendarBooking", "updateBookingStatus"}
        /\ sess[c].code = 200
        /\ b.status = "CANCELLED"
        /\ ~HeldByOthers(Committed, b)
        /\ \E r \in slots : r.bookingId = b.id /\ r.status = "CANCELLED"

\* The step in which a request to set a booking to BOOKED is answered
ReactivationEnds(c) ==
    /\ sess[c].pc = "begun"
    /\ sess'[c].pc = "done"
    /\ \/ sess[c].op = "updateBookingStatus" /\ sess[c].args.status = "BOOKED"
       \/ sess[c].op = "updateBooking" /\ sess[c].args.body.status = "BOOKED"

\* The court, date and range a reactivation of booking b asks for
Wanted(c, b) ==
    IF sess[c].op = "updateBooking"
    THEN [id |-> b.id, courtId |-> sess[c].args.body.courtId,
          bookingDate |-> sess[c].args.body.bookingDate,
          startTime |-> sess[c].args.body.startTime,
          endTime |-> sess[c].args.body.endTime]
    ELSE [id |-> b.id, courtId |-> b.courtId, bookingDate |-> b.bookingDate,
          startTime |-> b.startTime, endTime |-> b.endTime]

\* C8: a CANCELLED or COMPLETED booking becomes BOOKED only when no other
\* booking holds a BOOKED slot row in its court, date and range; when one
\* does, the request fails with a conflict and the bookings and the slot rows
\* stay as they were.
C8_ReactivationChecksAvailability ==
    [][\A c \in Clients :
         ReactivationEnds(c) =>
            \A b \in bookings :
                (b.id = sess[c].args.id /\ b.status \in {"CANCELLED", "COMPLETED"})
                => /\ HeldByOthers(Committed, Wanted(c, b))
                      => /\ sess'[c].out.err = "SLOT_CONFLICT"
                         /\ bookings' = bookings
                         /\ slots' = slots
                   /\ (\E x \in bookings' : x.id = b.id /\ x.status = "BOOKED")
                      => ~HeldByOthers(Committed, Wanted(c, b))]_vars

\* C9: a createBooking that loses because the slot is taken is answered 409,
\* whether the availability pre-check or the unique index reported the loss.
C9_SameResponseForBothConflicts ==
    \A c \in Clients :
        (/\ sess[c].op = "createBooking"
         /\ sess[c].pc = "done"
         /\ sess[c].out.err \in ConflictClass)
        => sess[c].code = 409

\* C10: when createSingleBooking or processRecurringBooking has come back to the
\* caller that owns the session, by return or by throw, no commitTransaction,
\* abortTransaction or endSession has been called on the session and its
\* transaction is still open.
C10_ExternalSessionUntouched ==
    \A c \in Clients :
        (/\ sess[c].op \in {"createBooking", "createRecurringBooking", "processWithSession"}
         /\ sess[c].pc \in {"returned", "threw"})
        => /\ sess[c].commits = 0
           /\ sess[c].aborts = 0
           /\ sess[c].ends = 0
           /\ sess[c].tx = "active"

\* processRecurringBooking has thrown to a caller that gave it a session and the
\* id of a PAUSED rule.
C10_Witness ==
    \E c \in Clients :
        /\ sess[c].op = "processWithSession"
        /\ sess[c].pc = "threw"
        /\ sess[c].out.err = "RULE_NOT_FOUND_OR_INACTIVE"
        /\ \E r \in sess[c].work.rules :
              r.id = sess[c].args.ruleId /\ r.status = "PAUSED"

\* The final amount createSingleBooking charges for request body
FinalOf(body) ==
    CoreFinalAmount(calculatePrice(CourtDoc(body.courtId),
                                   Len(generateSlots(body.startTime, body.endTime).slots),
                                   body.bookingDate),
                    Get(body, "discountType", "NONE"), Get(body, "discountValue", 0))

\* A createSingleBooking call of c on an active court, a valid range and free
\* slots has come back
CreateCameBack(c) ==
    /\ sess[c].op = "createBooking"
    /\ sess[c].pc \in {"returned", "threw"}
    /\ CourtDoc(sess[c].args.courtId).status = "ACTIVE"
    /\ ~generateSlots(sess[c].args.startTime, sess[c].args.endTime).threw
    /\ BookedLabels(sess[c].snap, sess[c].args) = {}

\* C11: a createSingleBooking call with paymentStatus PAID on an active court,
\* a valid range and free slots succeeds whatever the advance, and its Payment
\* has advancePaid = final amount, balance 0 and status PAID; without the
\* override a call with advance above the final amount fails with "Advance
\* cannot be more than final amount".
C11_PaidOverrideForcesAdvance ==
    \A c \in SeqClients :
        CreateCameBack(c) =>
            IF Get(sess[c].args, "paymentStatus", Null) = "PAID"
            THEN /\ sess[c].pc = "returned"
                 /\ \E q \in sess[c].work.payments :
                       /\ q.bookingId = sess[c].out.bookingId
                       /\ q.advancePaid = FinalOf(sess[c].args)
                       /\ q.totalAmount = FinalOf(sess[c].args)
                       /\ q.balanceAmount = 0
                       /\ q.status = "PAID"
            ELSE Get(sess[c].args, "advancePaid", 0) > FinalOf(sess[c].args)
                 => sess[c].pc = "threw" /\ sess[c].out.err = "ADVANCE_EXCEEDS"

\* The payment status that follows from an advance and a final amount
DerivedStatus(advance, finalAmount) ==
    IF advance <= 0 THEN "PENDING"
    ELSE IF advance >= finalAmount THEN "PAID"
    ELSE "PARTIAL"

\* C12: the Payment of every successful createSingleBooking call has the status
\* derived from its stored advance and the final amount: PENDING if advance <=
\* 0, PAID if advance >= final amount, PARTIAL otherwise, with balance = final
\* amount - advance.
C12_PaymentStatusDerived ==
    \A c \in SeqClients :
        (sess[c].op = "createBooking" /\ sess[c].pc = "returned")
        => \A q \in sess[c].work.payments :
              q.bookingId = sess[c].out.bookingId
              => /\ q.totalAmount = FinalOf(sess[c].args)
                 /\ q.status = DerivedStatus(q.advancePaid, q.totalAmount)
                 /\ q.balanceAmount = q.totalAmount - q.advancePaid

\* C13: in every reachable state every Payment row has balance = max(0, total
\* amount - advance paid), and its total amount is the final amount of its
\* booking.
C13_PaymentBalanceConsistent ==
    \A q \in payments :
        /\ q.balanceAmount = Max(0, q.totalAmount - q.advancePaid)
        /\ \A b \in bookings : b.id = q.bookingId => q.totalAmount = b.finalAmount

\* C14: the final amount of every Booking row is a non-negative integer of the
\* currency unit in every reachable state.
C14_FinalAmountIsNonNegativeInteger ==
    \A b \in bookings : b.finalAmount >= 0 /\ b.finalAmount % Unit = 0

\* C15: in every committed state every Booking has exactly one Payment row, and
\* every BookingSlot row and every Payment row belongs to a Booking that
\* exists.
C15_BookingOwnsSlotsAndPayment ==
    /\ \A b \in bookings : Cardinality({q \in payments : q.bookingId = b.id}) = 1
    /\ \A r \in slots : \E b \in bookings : b.id = r.bookingId
    /\ \A q \in payments : \E b \in bookings : b.id = q.bookingId

\* The step in which deleteRecurringBooking commits for c
DeleteRuleCommits(c) ==
    /\ sess[c].op = "deleteRecurringBooking"
    /\ sess[c].pc = "begun"
    /\ sess'[c].pc = "done"
    /\ sess'[c].tx = "committed"

\* C16: when deleteRecurringBooking commits for a rule, no Booking that a
\* processRecurringBooking run of that rule created remains, nor any of its
\* slot rows or its payment, and every Booking that was not created from that
\* rule is still there.
C16_RuleDeletionRemovesItsBookingsOnly ==
    [][\A c \in Clients :
         DeleteRuleCommits(c) =>
            LET mine == {b \in bookings :
                           [bookingId |-> b.id, ruleId |-> sess[c].args.ruleId] \in generated}
            IN /\ \A b \in mine :
                     /\ ~\E x \in bookings' : x.id = b.id
                     /\ ~\E r \in slots' : r.bookingId = b.id
                     /\ ~\E q \in payments' : q.bookingId = b.id
               /\ \A b \in bookings \ mine : b \in bookings']_vars

\* The step in which a sweep commits for c
SweepCommits(c) ==
    /\ sess[c].op = "sweep"
    /\ sess[c].pc = "begun"
    /\ sess'[c].pc = "done"
    /\ sess'[c].tx = "committed"

\* The bookings still BOOKED whose scheduled end has passed at instant now
Due(now) ==
    {b \in bookings :
        /\ b.status = "BOOKED"
        /\ \/ DayOf(b) < now.today
           \/ DayOf(b) = now.today /\ ParseTime(b.endTime) <= ParseTime(now.currentTime)}

\* C17: a committed sweep sets exactly the bookings that were BOOKED with their
\* end in the past, and all their slot rows, to COMPLETED; every other Booking
\* and BookingSlot row and every Payment is unchanged, so a sweep that finds
\* nothing expired changes nothing.
C17_SweepCompletesExactlyExpired ==
    [][\A c \in Clients :
         SweepCommits(c) =>
            LET due == Due(sess[c].args.now)
                ids == {b.id : b \in due}
            IN /\ bookings' = (bookings \ due)
                              \cup {[b EXCEPT !.status = "COMPLETED"] : b \in due}
               /\ slots' = {IF r.bookingId \in ids THEN [r EXCEPT !.status = "COMPLETED"]
                            ELSE r : r \in slots}
               /\ payments' = payments
               /\ due = {} => bookings' = bookings /\ slots' = slots]_vars

\* A sweep has committed with one booking completed, rows included, and
\* another booking, not yet over, still BOOKED.
C17_Witness ==
    \E c \in Clients, b \in bookings, x \in bookings :
        /\ sess[c].op = "sweep"
        /\ sess[c].pc = "done"
        /\ sess[c].tx = "committed"
        /\ clock = 1
        /\ b.status = "COMPLETED"
        /\ b.endTime = Instants[1].currentTime
        /\ \E r \in slots : r.bookingId = b.id
        /\ \A r \in slots : r.bookingId = b.id => r.status = "COMPLETED"
        /\ x.status = "BOOKED"
        /\ \E r \in slots : r.bookingId = x.id /\ r.status = "BOOKED"

\* A generateSlots call of c has returned or thrown
SlotsCalled(c) == sess[c].pc = "done" /\ sess[c].op = "generateSlots"

\* The labels of a call are start, start + 15, ... strictly before end
LabelsInStep(c) ==
    LET start == ParseTime(sess[c].args.startTime)
        end == ParseTime(sess[c].args.endTime)
        list == sess[c].out.slots
    IN /\ ~sess[c].out.threw
       /\ Len(list) >= 1
       /\ \A i \in 1..Len(list) :
             /\ ParseTime(list[i]) = start + 15 * (i - 1)
             /\ ParseTime(list[i]) < end
             /\ list[i] # sess[c].args.endTime

\* A call with end not strictly after start has failed without a list
InvalidRangeFails(c) == sess[c].out.threw /\ sess[c].out.slots = <<>>

\* C18 as stated: for every start and end with end strictly after start
\* generateSlots returns (end - start) / 15 labels, 15 minutes apart, from
\* start on and strictly before end; otherwise it fails with the invalid-range
\* error.
C18_SlotCountIsDurationOver15 ==
    \A c \in Clients :
        SlotsCalled(c) =>
            LET start == ParseTime(sess[c].args.startTime)
                end == ParseTime(sess[c].args.endTime)
            IN IF end > start
               THEN LabelsInStep(c) /\ Len(sess[c].out.slots) * 15 = end - start
               ELSE InvalidRangeFails(c)

\* C18 amended: for every start and end with end strictly after start
\* generateSlots returns the labels start, start + 15, ... strictly before end,
\* which are ceil((end - start) / 15) labels, that is (end - start) / 15 when
\* the duration is a multiple of 15 minutes; otherwise it fails with the
\* invalid-range error.
C18_SlotCountIsCeilOfDuration ==
    \A c \in Clients :
        SlotsCalled(c) =>
            LET start == ParseTime(sess[c].args.startTime)
                end == ParseTime(sess[c].args.endTime)
                n == Len(sess[c].out.slots)
            IN IF end > start
               THEN /\ LabelsInStep(c)
                    /\ 15 * (n - 1) < end - start
                    /\ end - start <= 15 * n
                    /\ (end - start) % 15 = 0 => n * 15 = end - start
               ELSE InvalidRangeFails(c)

\* generateSlots has returned two labels for a range of 20 minutes.
C18_Witness ==
    \E c \in Clients :
        /\ SlotsCalled(c)
        /\ ParseTime(sess[c].args.endTime) - ParseTime(sess[c].args.startTime) = 20
        /\ Len(sess[c].out.slots) = 2

\* Day numbers: day 1 is Monday 2024-01-01
WeekdayNames == <<"MON", "TUE", "WED", "THU", "FRI", "SAT", "SUN">>
WeekdayOf(d) == WeekdayNames[((d - 1) % 7) + 1]

\* Day d is the n-th day of some month
IsDayOfMonth(d, n) ==
    \E m \in 1..12 : n >= 1 /\ n <= MonthLengths[m] /\ d = MonthStart(m) + n - 1

\* The last day of the window of rule: its end date, or three months after the
\* start as Date.setMonth counts them (the start's day number carried into the
\* third month after it, running on into the next month when that is shorter)
WindowEnd(rule) ==
    IF rule.endDate # NoDate THEN rule.endDate \div 24
    ELSE LET first == rule.startDate \div 24
             m == CHOOSE k \in 1..12 :
                     MonthStart(k) <= first /\ first < MonthStart(k) + MonthLengths[k]
         IN MonthStart(m + 3) + (first - MonthStart(m))

\* The days generateDates is to return for rule
DaysOfRule(rule) ==
    {d \in (rule.startDate \div 24)..WindowEnd(rule) :
        IF rule.recurrenceType = "WEEKLY" THEN WeekdayOf(d) \in rule.daysOfWeek
        ELSE IsDayOfMonth(d, rule.fixedDate)}

\* C19: generateDates returns, ascending and without duplicates, exactly the
\* calendar days d with start <= d <= end (end defaulting to start + 3 months)
\* whose weekday is in the rule's day set (WEEKLY) or whose day of the month is
\* the rule's fixed day (MONTHLY); when no day matches the sequence is empty;
\* the rule passed in is not modified.
C19_GenerateDatesIsWindowFilter ==
    \A c \in Clients :
        (sess[c].pc = "done" /\ sess[c].op = "generateDates") =>
            LET rule == sess[c].args.rule
                dates == sess[c].out.dates
            IN /\ \A i \in 1..Len(dates) : dates[i] % 24 = 0
               /\ \A i \in 1..(Len(dates) - 1) : dates[i] < dates[i + 1]
               /\ {dates[i] \div 24 : i \in 1..Len(dates)} = DaysOfRule(rule)
               /\ DaysOfRule(rule) = {} => dates = <<>>
               /\ sess[c].out.rule = rule

\* generateDates has returned the Fridays of a window without end date that
\* starts on 2024-01-31: the last one is the Friday before the window's end.
C19_Witness ==
    \E c \in Clients :
        /\ sess[c].pc = "done"
        /\ sess[c].op = "generateDates"
        /\ sess[c].args.rule.endDate = NoDate
        /\ sess[c].args.rule.startDate = 31 * 24
        /\ sess[c].args.rule.daysOfWeek = {"FRI"}
        /\ Len(sess[c].out.dates) = 13
        /\ sess[c].out.dates[13] = 117 * 24

\* C20: calculatePrice(court, slotCount, date) is (weekend rate / 4) x slotCount
\* when the date is a Saturday or a Sunday and (weekday rate / 4) x slotCount
\* otherwise, for every court, slot count and date; the result depends on
\* nothing but the three arguments.
C20_PriceIsQuarterRateTimesSlots ==
    \A c \in Clients :
        (sess[c].pc = "done" /\ sess[c].op = "calculatePrice") =>
            LET a == sess[c].args
                rate == IF WeekdayOf(a.bookingDate \div 24) \in {"SAT", "SUN"}
                        THEN a.court.weekendPrice ELSE a.court.weekdayPrice
            IN /\ 4 * sess[c].out = rate * a.totalSlots * Unit
               /\ \A d \in Clients :
                      (sess[d].pc = "done" /\ sess[d].op = "calculatePrice"
                       /\ sess[d].args = a) => sess[d].out = sess[c].out

\* calculatePrice has priced four slots on a Sunday evening at the weekend rate
\* of 600: 600.
C20_Witness ==
    \E c \in Clients :
        /\ sess[c].pc = "done"
        /\ sess[c].op = "calculatePrice"
        /\ sess[c].args.court = CourtDoc(ActiveCourt)
        /\ sess[c].args.totalSlots = 4
        /\ sess[c].args.bookingDate = 7 * 24 + 23
        /\ sess[c].out = 600 * Unit

\* A call of checkSlotAvailability by c is made in this step
AvailabilityCalled(c) ==
    /\ sess'[c].pc = "done"
    /\ sess'[c].op = "checkSlotAvailability"
    /\ sess'[c] # sess[c]

\* The generated labels of the call's range that a BOOKED row of a booking other
\* than the excluded one holds on the call's court and normalized date
ConflictingLabels(a) ==
    {t \in Labels(a) :
        \E r \in slots : /\ r.status = "BOOKED"
                         /\ r.courtId = a.courtId
                         /\ r.bookingDate = normalizeToMidnight(a.bookingDate)
                         /\ r.slotTime = t
                         /\ (a.excludeBookingId = NoId \/ r.bookingId # a.excludeBookingId)}

BatchCommits(c) ==
    /\ sess[c].op \in {"createRecurringBooking", "processWithSession",
                       "updateRecurringBooking"}
    /\ sess[c].pc \in {"returned", "committed"}
    /\ sess'[c].pc = "done"
    /\ sess'[c].code \in {200, 201}

\* The rows of a collection of slot rows or bookings on a court and calendar day
OnCourtDay(S, courtId, day) ==
    {r \in S : r.courtId = courtId /\ ISODate(r.bookingDate) = day}

\* C22: the state committed by a processRecurringBooking batch holds no change
\* for a date that failed in it: no Booking, BookingSlot or Payment row is added
\* for that date, and no existing BookingSlot row of that date is deleted or
\* modified.
C22_FailedDateLeavesNoTrace ==
    [][\A c \in Clients :
         BatchCommits(c) =>
            LET rule == CHOOSE r \in sess[c].work.rules : r.id = sess[c].args.ruleId
                out == sess'[c].out
            IN \A i \in 1..Len(out.conflicts) :
                  LET day == out.conflicts[i].date
                  IN /\ OnCourtDay(bookings', rule.courtId, day)
                           = OnCourtDay(bookings, rule.courtId, day)
                     /\ OnCourtDay(slots', rule.courtId, day)
                           = OnCourtDay(slots, rule.courtId, day)
                     /\ \A q \in payments' \ payments :
                           \A b \in bookings' : b.id = q.bookingId =>
                               ISODate(b.bookingDate) # day]_vars

\* The status changes a Booking may make
AllowedStatusChanges ==
    {<<"BOOKED", "COMPLETED">>, <<"BOOKED", "CANCELLED">>,
     <<"CANCELLED", "BOOKED">>, <<"COMPLETED", "BOOKED">>}

\* C23: a Booking's status changes only from BOOKED to COMPLETED, from BOOKED to
\* CANCELLED, and from CANCELLED or COMPLETED back to BOOKED, never directly
\* between CANCELLED and COMPLETED; the step that commits a status change also
\* commits a change of the booking's slot rows.
C23_StatusChangesAlongLifecycle ==
    [][\A b \in bookings : \A n \in bookings' :
          (n.id = b.id /\ n.status # b.status) =>
              /\ <<b.status, n.status>> \in AllowedStatusChanges
              /\ {r \in slots' : r.bookingId = b.id} # {r \in slots : r.bookingId = b.id}]_vars

\* The time ranges of two bookings overlap
Overlap(a, b) ==
    /\ ParseTime(a.startTime) < ParseTime(b.endTime)
    /\ ParseTime(b.startTime) < ParseTime(a.endTime)

\* C24: no two Bookings with status BOOKED on the same court and the same
\* calendar day have overlapping time ranges.
C24_NoOverlappingBookedBookings ==
    \A a \in bookings, b \in bookings :
        (/\ a.id # b.id
         /\ a.status = "BOOKED"
         /\ b.status = "BOOKED"
         /\ a.courtId = b.courtId
         /\ normalizeToMidnight(a.bookingDate) = normalizeToMidnight(b.bookingDate))
        => ~Overlap(a, b)

\* C25: in every committed state every BOOKED Booking owns exactly one BOOKED
\* BookingSlot row for each 15-minute slot of its time range (totalSlots rows),
\* and every BOOKED BookingSlot row is owned by a Booking whose status is BOOKED.
C25_SlotRowsMirrorBooking ==
    /\ \A b \in bookings :
          b.status = "BOOKED" =>
              LET rows == {r \in slots : r.bookingId = b.id /\ r.status = "BOOKED"}
              IN /\ {r.slotTime : r \in rows} = Labels(b)
                 /\ Cardinality(rows) = Cardinality(Labels(b))
                 /\ Cardinality(rows) = b.totalSlots
    /\ \A r \in slots :
          r.status = "BOOKED" =>
              \E b \in bookings : b.id = r.bookingId /\ b.status = "BOOKED"

\* C26: every BookingSlot row carries a booking date that is normalized to
\* midnight and equal to the booking date of the Booking that owns it.
C26_SlotRowDateIsBookingMidnight ==
    \A r \in slots :
        /\ r.bookingDate = normalizeToMidnight(r.bookingDate)
        /\ \A b \in bookings : b.id = r.bookingId => r.bookingDate = b.bookingDate

\* The calls made on a session whose transaction was finished exactly once:
\* committed and not aborted afterwards, or aborted (a commitTransaction the
\* database refused may come before the abort)
FinishedOnce(tx, commits, aborts) ==
    \/ tx = "committed" /\ commits = 1 /\ aborts = 0
    \/ tx = "aborted" /\ aborts = 1 /\ commits <= 1

\* C27: when a handler has answered, the transaction it started was either
\* committed or aborted by it, exactly once: not aborted after the commit and
\* not left open; the same holds for the transaction processRecurringBooking
\* starts for itself after updateRecurringBooking has committed.
C27_TransactionFinishedOnce ==
    \A c \in Clients :
        (sess[c].pc = "done" /\ sess[c].tx # "none") =>
            /\ FinishedOnce(sess[c].tx, sess[c].commits, sess[c].aborts)
            /\ "local" \in DOMAIN sess[c].out =>
                  LET l == sess[c].out.local
                  IN l.commits + l.aborts >= 1 /\ (l.commits = 1 => l.aborts = 0)

\* Booking id is BOOKED with its scheduled end in the past at the current instant
IsDue(id) == \E b \in Due(Instants[clock]) : b.id = id

\* Booking id is COMPLETED, CANCELLED or deleted
Settled(id) == \A b \in bookings : b.id = id => b.status \in {"COMPLETED", "CANCELLED"}

\* The last sweep has committed
SweepCommitted ==
    /\ sess[Sweeper].op = "sweep"
    /\ sess[Sweeper].pc = "done"
    /\ sess[Sweeper].tx = "committed"

\* The step in which a sweep fails
SweepFails(c) ==
    /\ sess[c].op = "sweep"
    /\ sess[c].pc = "begun"
    /\ sess'[c].pc = "done"
    /\ sess'[c].tx # "committed"

\* C28: with sweeps scheduled again and again and committing again and again,
\* every Booking that is BOOKED with its scheduled end in the past is eventually
\* COMPLETED, unless it is cancelled or deleted first; a sweep that fails aborts
\* its transaction and changes no Booking or BookingSlot row.
C28_DueBookingsAreEventuallyCompleted ==
    /\ [][\A c \in Clients :
            SweepFails(c) => /\ sess'[c].tx = "aborted"
                             /\ sess'[c].aborts = 1
                             /\ bookings' = bookings
                             /\ slots' = slots]_vars
    /\ \A id \in BookingIds : ([]<>SweepCommitted) => (IsDue(id) ~> Settled(id))

\* The one booking ever created was due, and a sweep that ran after the request
\* that created it has committed: the booking is COMPLETED, rows included.
C28_Witness ==
    /\ SweepCommitted
    /\ nextId = 2
    /\ sess["r1"].op = "createBooking"
    /\ sess["r1"].pc = "done"
    /\ \E b \in bookings :
          /\ b.status = "COMPLETED"
          /\ \E r \in slots : r.bookingId = b.id
          /\ \A r \in slots : r.bookingId = b.id => r.status = "COMPLETED"

\* C29: a sweep that commits beside concurrent cancels, reactivations and
\* deletes changes only bookings that are BOOKED in the committed state at
\* its commit, setting them and their rows to COMPLETED: it does not complete a
\* booking that is CANCELLED by then and adds or changes no row of a booking
\* that is deleted by then.
C29_SweepCompletesOnlyStillBooked ==
    [][\A c \in Clients :
         SweepCommits(c) =>
            /\ \A n \in bookings' \ bookings :
                  \E b \in bookings : /\ b.id = n.id
                                      /\ b.status = "BOOKED"
                                      /\ n = [b EXCEPT !.status = "COMPLETED"]
            /\ \A b \in bookings \ bookings' :
                  b.status = "BOOKED" /\ \E n \in bookings' : n.id = b.id
            /\ \A r \in (slots' \ slots) \cup (slots \ slots') :
                  \E b \in bookings : b.id = r.bookingId /\ b.status = "BOOKED"
            /\ {r.bookingId : r \in slots'} = {r.bookingId : r \in slots}]_vars

\* A sweep that had found a booking due has been refused at its writes after the
\* booking was cancelled under it: the booking is CANCELLED, rows included.
C29_Witness ==
    /\ sess[Sweeper].op = "sweep"
    /\ sess[Sweeper].pc = "done"
    /\ sess[Sweeper].tx = "aborted"
    /\ sess[Sweeper].out.err = "WRITE_CONFLICT"
    /\ \E b \in bookings :
          /\ b.status = "CANCELLED"
          /\ \E r \in slots : r.bookingId = b.id
          /\ \A r \in slots : r.bookingId = b.id => r.status = "CANCELLED"

\* The bookings that committed runs of rule ruleId have created
GeneratedFor(ruleId) ==
    {b \in bookings : [bookingId |-> b.id, ruleId |-> ruleId] \in generated}

\* A run for rule commits in this step (BatchCommits), an earlier committed run
\* has read the same rule document, and every booking generated for the rule
\* is still there, BOOKED with all its slot rows BOOKED.
RunsAgain(c, rule) ==
    /\ BatchCommits(c)
    /\ [ruleId |-> rule.id, ranAs |-> rule] \in generated
    /\ \E g \in generated : "bookingId" \in DOMAIN g /\ g.ruleId = rule.id
    /\ \A g \in generated :
          ("bookingId" \in DOMAIN g /\ g.ruleId = rule.id) =>
              \E b \in bookings :
                  /\ b.id = g.bookingId
                  /\ b.status = "BOOKED"
                  /\ {r.slotTime : r \in {x \in slots : x.bookingId = b.id
                                                      /\ x.status = "BOOKED"}} = Labels(b)

\* The dates of the rule that the earlier runs booked are reported as failed
\* with a conflict, and nothing is added on them.
BookedDatesConflict(c, rule) ==
    \A b \in {x \in GeneratedFor(rule.id) :
                 /\ x.bookingDate \in Range(generateDates(rule))
                 /\ x.courtId = rule.courtId
                 /\ x.startTime = rule.startTime
                 /\ x.endTime = rule.endTime} :
        /\ \E i \in 1..Len(sess'[c].out.conflicts) :
              /\ sess'[c].out.conflicts[i].date = ISODate(b.bookingDate)
              /\ sess'[c].out.conflicts[i].reason = "SLOT_CONFLICT"
        /\ ~\E n \in bookings' \ bookings : n.bookingDate = b.bookingDate

====
